---- MODULE Spec2Model ----
(***************************************************************************)
(* Model of the MSSQL tool server (src/src/server.ts, src/src/db.ts).      *)
(*                                                                         *)
(* The six tool functions are async functions.  Each runs synchronously    *)
(* up to its next await, so one action of the model is one such run:       *)
(* the call itself (argument checks and the call of connectToDb), the      *)
(* settling of connectToDb (followed by the query building and the call    *)
(* of request.query / request.bulk), the settling of the query (followed   *)
(* by the catch and finally blocks up to the call of pool.close) and the   *)
(* settling of pool.close (followed by the return or the re-throw).        *)
(*                                                                         *)
(* Text is a sequence of pieces: the literal fragments of the template     *)
(* strings, and the characters of the interpolated names and operators.    *)
(* A name is a sequence of one-character strings.                          *)
(*                                                                         *)
(* Spec runs one call of a tool function at a time, FairSpec adds that     *)
(* the awaited collaborators answer, ConcurrentSpec runs two calls         *)
(* interleaved at their awaits, DispatchSpec puts the CallTool handlers    *)
(* of server.ts and of index.ts (src/unnamed/part_001) in front of the     *)
(* tool functions, and ConnectSpec runs connectToDb of db.ts on its own    *)
(* for the environments it can find.                                       *)
(***************************************************************************)
EXTENDS Integers, Sequences, FiniteSets, TLC

(***************************************************************************)
(* Bounds of the model.                                                    *)
(***************************************************************************)
MaxFilters == 2
MaxInLen == 2

(***************************************************************************)
(* Generic helpers for sequences and text.                                 *)
(***************************************************************************)
Range(s) == {s[i] : i \in 1..Len(s)}

RECURSIVE Flatten(_)
Flatten(ss) == IF ss = <<>> THEN <<>> ELSE Head(ss) \o Flatten(Tail(ss))

\* Array.prototype.join: the pieces of the items, separated by sep
RECURSIVE join(_, _)
join(items, sep) ==
    IF items = <<>> THEN <<>>
    ELSE IF Len(items) = 1 THEN items[1]
    ELSE items[1] \o <<sep>> \o join(Tail(items), sep)

\* the text a occurs in the text b as a contiguous run of pieces
Contains(b, a) ==
    \E i \in 0..(Len(b) - Len(a)) : \A j \in 1..Len(a) : b[i + j] = a[j]

LowerChars == <<"a","b","c","d","e","f","g","h","i","j","k","l","m",
                "n","o","p","q","r","s","t","u","v","w","x","y","z">>
UpperChars == <<"A","B","C","D","E","F","G","H","I","J","K","L","M",
                "N","O","P","Q","R","S","T","U","V","W","X","Y","Z">>
DigitChars == <<"0","1","2","3","4","5","6","7","8","9">>

UpperChar(ch) ==
    IF \E i \in 1..Len(LowerChars) : LowerChars[i] = ch
    THEN UpperChars[CHOOSE i \in 1..Len(LowerChars) : LowerChars[i] = ch]
    ELSE ch

\* String.prototype.toUpperCase
toUpperCase(s) == [i \in 1..Len(s) |-> UpperChar(s[i])]

(***************************************************************************)
(* JavaScript objects used as mappings.  A mapping is given by its         *)
(* entries in insertion order; for..in, Object.keys and Object.entries     *)
(* enumerate the keys that are canonical array indices first, in           *)
(* ascending numeric order, and then the other keys in insertion order.    *)
(***************************************************************************)
IsDigit(ch) == \E i \in 1..Len(DigitChars) : DigitChars[i] = ch
DigitValue(ch) == (CHOOSE i \in 1..Len(DigitChars) : DigitChars[i] = ch) - 1

IsArrayIndex(key) ==
    /\ Len(key) > 0
    /\ \A i \in 1..Len(key) : IsDigit(key[i])
    /\ (Len(key) > 1 => key[1] # "0")

RECURSIVE IndexValue(_)
IndexValue(key) ==
    IF key = <<>> THEN 0
    ELSE 10 * IndexValue(SubSeq(key, 1, Len(key) - 1)) + DigitValue(key[Len(key)])

\* fault variant: the keys are enumerated in insertion order
OwnEntriesInInsertionOrder(entries) == entries
\* for..in, Object.keys, Object.entries
OwnEntries(entries) ==
    LET idx == SelectSeq(entries, LAMBDA e : IsArrayIndex(e.key))
        str == SelectSeq(entries, LAMBDA e : ~IsArrayIndex(e.key))
    IN SortSeq(idx, LAMBDA a, b : IndexValue(a.key) < IndexValue(b.key)) \o str

(***************************************************************************)
(* Values.  A scalar carries its JavaScript runtime type; a value is a     *)
(* scalar, an array of scalars, an object of the shape {operator, value},  *)
(* or undefined.                                                           *)
(***************************************************************************)
Num(n) == [type |-> "integer", v |-> n]
ScalarValue(s) == [kind |-> "scalar", elems |-> <<s>>, op |-> <<>>]
ArrayValue(ss) == [kind |-> "array", elems |-> ss, op |-> <<>>]
ObjectValue(o, s) == [kind |-> "object", elems |-> <<s>>, op |-> o]
UndefinedValue == [kind |-> "undefined", elems |-> <<>>, op |-> <<>>]

\* Array.isArray
isArray(value) == value.kind = "array"

\* optional arguments: undefined, null or present
Undefined == [kind |-> "undefined", entries |-> <<>>]
Null == [kind |-> "null", entries |-> <<>>]
Object(entries) == [kind |-> "object", entries |-> entries]
NoNumber == [kind |-> "undefined", n |-> 0, frac |-> ""]
NullNumber == [kind |-> "null", n |-> 0, frac |-> ""]
Number(n) == [kind |-> "number", n |-> n, frac |-> ""]
\* a number that is no integer: n >= 0 and the digits after the point
Fraction(n, frac) == [kind |-> "number", n |-> n, frac |-> frac]
\* `${x}` for a number x
NumberText(x) == IF x.frac = "" THEN ToString(x.n) ELSE ToString(x.n) \o "." \o x.frac
\* x > 0 for a number x
GreaterThanZero(x) == x.n > 0 \/ (x.n = 0 /\ x.frac # "")
NoArray == [kind |-> "undefined", items |-> <<>>]
Array(items) == [kind |-> "array", items |-> items]

\* the truthiness test `if (x)` / `!x` of an optional object or array
Truthy(x) == x.kind \notin {"undefined", "null"}
\* `x != null`
NotNullish(x) == x.kind \notin {"undefined", "null"}

Entry(k, v) == [key |-> k, value |-> v]
Keys(entries) == [i \in 1..Len(entries) |-> entries[i].key]

(***************************************************************************)
(* request.input(name, value) and request.input(name, type, value)         *)
(***************************************************************************)
Input(name, type, value) == [name |-> name, type |-> type, value |-> value]
Warning(kind, col) == [kind |-> kind, col |-> col]

\* `[${name}]`
Bracket(name) == <<"[">> \o name \o <<"]">>
\* `@${paramName}`
Placeholder(paramName) == "@" \o paramName

(***************************************************************************)
(* read_table_rows: the query built between the settling of connectToDb    *)
(* and the call of request.query (server.ts 309-375).                      *)
(***************************************************************************)
ComparisonOps ==
    {<<"=">>, <<">">>, <<"<">>, <<">", "=">>, <<"<", "=">>, <<"!", "=">>, <<"<", ">">>}

\* fault variant: the switch has no default case that drops the filter
OperatorCasePassThrough(opU) ==
    CASE opU = <<"L", "I", "K", "E">> -> "LIKE"
      [] opU = <<"I", "N">> -> "IN"
      [] OTHER -> "comparison"
\* the case of the switch on filter.operator.toUpperCase() that is taken
OperatorCase(opU) ==
    CASE opU \in ComparisonOps -> "comparison"
      [] opU = <<"L", "I", "K", "E">> -> "LIKE"
      [] opU = <<"I", "N">> -> "IN"
      [] OTHER -> "default"

\* fault variant: the value is written into the text instead of the placeholder
ComparisonClauseInlined(col, operator, paramName, value) ==
    Bracket(col) \o <<" ">> \o operator
    \o <<" ">> \o [i \in 1..Len(value.elems) |-> ToString(value.elems[i].v)]
\* `[${col}] ${filter.operator} @${paramName}`
ComparisonClause(col, operator, paramName, value) ==
    Bracket(col) \o <<" ">> \o operator \o <<" ", Placeholder(paramName)>>

\* `[${col}] LIKE @${paramName}`
LikeClause(col, paramName, value) ==
    Bracket(col) \o <<" LIKE ", Placeholder(paramName)>>

\* fault variant: the elements are numbered from 1
InParamNameFromOne(paramName, i) == paramName \o "_" \o ToString(i + 1)
\* `${paramName}_${i}`, i counted from 0
InParamName(paramName, i) == paramName \o "_" \o ToString(i)

\* filter.value.map((val, i) => ...) and ` IN (${inParams.join(', ')})`
InInputs(paramName, elems) ==
    [i \in 1..Len(elems) |->
        Input(InParamName(paramName, i - 1), "infer", ScalarValue(elems[i]))]
InClause(col, paramName, elems) ==
    Bracket(col) \o <<" IN (">>
    \o join([i \in 1..Len(elems) |-> <<Placeholder(InParamName(paramName, i - 1))>>], ", ")
    \o <<")">>

\* Array.isArray(filter.value) && filter.value.length > 0
InValueUsable(value) == isArray(value) /\ Len(value.elems) > 0

\* the state of the filter loop: paramIndex, filterClauses, the calls of
\* request.input and logger.warn made so far, and whether it has thrown
FilterAcc0 ==
    [paramIndex |-> 0, clauses |-> <<>>, inputs |-> <<>>, warnings |-> <<>>,
     threw |-> FALSE]

\* one iteration of the loop over the filters (server.ts 316-347); a filter
\* that is null or has no operator string throws at filter.operator.toUpperCase()
FilterStep(acc, entry) ==
    LET col == entry.key
        filter == entry.value
        paramName == "filterParam" \o ToString(acc.paramIndex)
        next == [acc EXCEPT !.paramIndex = @ + 1]
    IN IF ~filter.hasOperator THEN [next EXCEPT !.threw = TRUE]
       ELSE LET which == OperatorCase(toUpperCase(filter.operator)) IN
         CASE which = "comparison" ->
                [next EXCEPT
                   !.clauses = Append(@, ComparisonClause(col, filter.operator,
                                                          paramName, filter.value)),
                   !.inputs = Append(@, Input(paramName, "infer", filter.value))]
           [] which = "LIKE" ->
                [next EXCEPT
                   !.clauses = Append(@, LikeClause(col, paramName, filter.value)),
                   !.inputs = Append(@, Input(paramName, "NVarChar", filter.value))]
           [] which = "IN" ->
                IF InValueUsable(filter.value)
                THEN [next EXCEPT
                        !.clauses = Append(@, InClause(col, paramName, filter.value.elems)),
                        !.inputs = @ \o InInputs(paramName, filter.value.elems)]
                ELSE [next EXCEPT !.warnings = Append(@, Warning("InvalidInValue", col))]
           [] OTHER ->
                [next EXCEPT !.warnings = Append(@, Warning("UnsupportedOperator", col))]

\* fault variant: a filter without an operator string is skipped and the
\* loop goes on
RECURSIVE FilterLoopSkipsMalformed(_, _)
FilterLoopSkipsMalformed(acc, entries) ==
    IF entries = <<>> THEN acc
    ELSE FilterLoopSkipsMalformed([FilterStep(acc, Head(entries)) EXCEPT !.threw = FALSE],
                                  Tail(entries))

RECURSIVE FilterLoop(_, _)
FilterLoop(acc, entries) ==
    IF entries = <<>> \/ acc.threw THEN acc
    ELSE FilterLoop(FilterStep(acc, Head(entries)), Tail(entries))

\* args.order_by[col].toUpperCase() === 'DESC' ? 'DESC' : 'ASC'
Direction(dir) == IF toUpperCase(dir) = <<"D", "E", "S", "C">> THEN "DESC" ELSE "ASC"

OrderClauses(order_by) ==
    IF Truthy(order_by)
    THEN LET es == OwnEntries(order_by.entries)
         IN [i \in 1..Len(es) |-> Bracket(es[i].key) \o <<" ", Direction(es[i].value)>>]
    ELSE <<>>

\* args.limit != null || args.offset != null
Paginated(limit, offset) == NotNullish(limit) \/ NotNullish(offset)

\* fault variant: the else-if tests the limit and forgets the offset
NeedsDefaultOrderLimitOnly(orderClauses, limit, offset) ==
    Len(orderClauses) = 0 /\ NotNullish(limit)
\* the else-if of server.ts 363: the synthetic ordering is needed
NeedsDefaultOrder(orderClauses, limit, offset) ==
    Len(orderClauses) = 0 /\ Paginated(limit, offset)

\* fault variant: the FETCH clause is written whenever a limit is given
PaginationTextAnyLimit(limit, offset) ==
    IF Paginated(limit, offset)
    THEN <<" OFFSET ", NumberText(IF NotNullish(offset) THEN offset ELSE Number(0)), " ROWS">>
         \o (IF NotNullish(limit)
             THEN <<" FETCH NEXT ", NumberText(limit), " ROWS ONLY">>
             ELSE <<>>)
    ELSE <<>>
\* server.ts 368-374
PaginationText(limit, offset) ==
    IF Paginated(limit, offset)
    THEN LET offsetCount == IF NotNullish(offset) THEN offset ELSE Number(0)
         IN <<" OFFSET ", NumberText(offsetCount), " ROWS">>
            \o (IF NotNullish(limit) /\ GreaterThanZero(limit)
                THEN <<" FETCH NEXT ", NumberText(limit), " ROWS ONLY">>
                ELSE <<>>)
    ELSE <<>>

SelectColumns(columns) ==
    IF columns.kind = "array" /\ Len(columns.items) > 0
    THEN join([i \in 1..Len(columns.items) |-> Bracket(columns.items[i])], ", ")
    ELSE <<"*">>

\* the whole building step: the text handed to request.query, the calls of
\* request.input and logger.warn, and whether the step threw
ReadBuild(a) ==
    LET f == IF Truthy(a.filters)
             THEN FilterLoop(FilterAcc0, OwnEntries(a.filters.entries))
             ELSE FilterAcc0
        orderClauses == OrderClauses(a.order_by)
        synth == NeedsDefaultOrder(orderClauses, a.limit, a.offset)
    IN [threw |-> f.threw,
        inputs |-> f.inputs,
        warnings |-> f.warnings
            \o (IF ~f.threw /\ synth THEN <<Warning("PaginationWithoutOrder", <<>>)>> ELSE <<>>),
        text |->
            IF f.threw THEN <<>>
            ELSE <<"SELECT ">> \o SelectColumns(a.columns)
                 \o <<" FROM ">> \o Bracket(a.table_name)
                 \o (IF Len(f.clauses) > 0
                     THEN <<" WHERE ">> \o join(f.clauses, " AND ") ELSE <<>>)
                 \o (IF Len(orderClauses) > 0
                     THEN <<" ORDER BY ">> \o join(orderClauses, ", ")
                     ELSE IF synth THEN <<" ORDER BY (SELECT 1)">> ELSE <<>>)
                 \o PaginationText(a.limit, a.offset)
                 \o <<";">>]

(***************************************************************************)
(* list_tables and get_table_schema: fixed text, names bound as parameters *)
(* (server.ts 242-248, 273-283).                                           *)
(***************************************************************************)
\* `if (args.schema)`: a non-empty string
HasSchema(a) == a.schema.kind = "string" /\ Len(a.schema.chars) > 0
SchemaInput(a) ==
    IF HasSchema(a)
    THEN <<Input("schema", "NVarChar", [kind |-> "string", elems |-> a.schema.chars, op |-> <<>>])>>
    ELSE <<>>

ListBuild(a) ==
    [threw |-> FALSE,
     inputs |-> SchemaInput(a),
     warnings |-> <<>>,
     text |-> <<"SELECT TABLE_NAME FROM INFORMATION_SCHEMA.TABLES WHERE TABLE_TYPE = 'BASE TABLE'">>
              \o (IF HasSchema(a) THEN <<" AND TABLE_SCHEMA = @schema">> ELSE <<>>)
              \o <<" ORDER BY TABLE_NAME;">>]

SchemaBuild(a) ==
    [threw |-> FALSE,
     inputs |-> <<Input("table_name", "NVarChar",
                        [kind |-> "string", elems |-> a.table_name, op |-> <<>>])>>
                \o SchemaInput(a),
     warnings |-> <<>>,
     text |-> <<"SELECT COLUMN_NAME, DATA_TYPE, IS_NULLABLE, CHARACTER_MAXIMUM_LENGTH, NUMERIC_PRECISION, NUMERIC_SCALE, COLUMN_DEFAULT FROM INFORMATION_SCHEMA.COLUMNS WHERE TABLE_NAME = @table_name">>
              \o (IF HasSchema(a) THEN <<" AND TABLE_SCHEMA = @schema">> ELSE <<>>)
              \o <<" ORDER BY ORDINAL_POSITION;">>]

(***************************************************************************)
(* update_table_records and delete_table_records (server.ts 482-499,      *)
(* 536-546): one paramIndex runs through the SET and the WHERE entries.    *)
(***************************************************************************)
\* `[${col}] = @${paramName}`
EqualsClause(col, paramName, value) ==
    Bracket(col) \o <<" = ", Placeholder(paramName)>>

SetParamName(k) == "setParam" \o ToString(k)
FilterParamName(k) == "filterParam" \o ToString(k)

\* Object.entries(args.updates).map(...), paramIndex starting at first
SetClauses(es, first) ==
    [i \in 1..Len(es) |-> EqualsClause(es[i].key, SetParamName(first + i - 1), es[i].value)]
SetInputs(es, first) ==
    [i \in 1..Len(es) |-> Input(SetParamName(first + i - 1), "infer", es[i].value)]

\* Object.entries(args.filters).map(...), paramIndex starting at first
WhereClauses(es, first) ==
    [i \in 1..Len(es) |-> EqualsClause(es[i].key, FilterParamName(first + i - 1), es[i].value)]
\* fault variant: a value shaped like {operator, value} is interpreted,
\* its inner value is bound
WhereInputsInterpreted(es, first) ==
    [i \in 1..Len(es) |->
        Input(FilterParamName(first + i - 1), "infer",
              IF es[i].value.kind = "object"
              THEN ScalarValue(es[i].value.elems[1]) ELSE es[i].value)]
\* request.input(paramName, value) of the same map(...)
WhereInputs(es, first) ==
    [i \in 1..Len(es) |-> Input(FilterParamName(first + i - 1), "infer", es[i].value)]

\* fault variant: the WHERE entries have a counter of their own, from 0
UpdateBuildSeparateCounters(a) ==
    LET us == OwnEntries(a.updates.entries)
        fs == OwnEntries(a.filters.entries)
    IN [threw |-> FALSE,
        inputs |-> SetInputs(us, 0) \o WhereInputs(fs, 0),
        warnings |-> <<>>,
        text |-> <<"UPDATE ">> \o Bracket(a.table_name)
                 \o <<" SET ">> \o join(SetClauses(us, 0), ", ")
                 \o <<" WHERE ">> \o join(WhereClauses(fs, 0), " AND ")
                 \o <<"; SELECT @@ROWCOUNT AS RowsAffected;">>]
UpdateBuild(a) ==
    LET us == OwnEntries(a.updates.entries)
        fs == OwnEntries(a.filters.entries)
    IN [threw |-> FALSE,
        inputs |-> SetInputs(us, 0) \o WhereInputs(fs, Len(us)),
        warnings |-> <<>>,
        text |-> <<"UPDATE ">> \o Bracket(a.table_name)
                 \o <<" SET ">> \o join(SetClauses(us, 0), ", ")
                 \o <<" WHERE ">> \o join(WhereClauses(fs, Len(us)), " AND ")
                 \o <<"; SELECT @@ROWCOUNT AS RowsAffected;">>]

DeleteBuild(a) ==
    LET fs == OwnEntries(a.filters.entries)
    IN [threw |-> FALSE,
        inputs |-> WhereInputs(fs, 0),
        warnings |-> <<>>,
        text |-> <<"DELETE FROM ">> \o Bracket(a.table_name)
                 \o <<" WHERE ">> \o join(WhereClauses(fs, 0), " AND ")
                 \o <<"; SELECT @@ROWCOUNT AS RowsAffected;">>]

\* fault variants: the checks test for null and forget the empty mapping
FiltersMissingNullOnly(filters) == ~Truthy(filters)
UpdatesMissingNullOnly(updates) == ~Truthy(updates)
\* !args.filters || Object.keys(args.filters).length === 0
FiltersMissing(filters) == ~Truthy(filters) \/ Len(filters.entries) = 0
\* !args.updates || Object.keys(args.updates).length === 0
UpdatesMissing(updates) == ~Truthy(updates) \/ Len(updates.entries) = 0

(***************************************************************************)
(* create_table_records (server.ts 405-441): the sql.Table handed to       *)
(* request.bulk.                                                           *)
(***************************************************************************)
\* fault variant: every number is declared Int
getSqlTypeAllNumbersInt(value) ==
    IF value.kind = "scalar"
    THEN CASE value.elems[1].type \in {"integer", "float"} -> "Int"
           [] value.elems[1].type = "boolean" -> "Bit"
           [] value.elems[1].type = "date" -> "DateTime"
           [] OTHER -> "NVarChar(MAX)"
    ELSE "NVarChar(MAX)"
\* getSqlType
getSqlType(value) ==
    IF value.kind = "scalar"
    THEN CASE value.elems[1].type = "integer" -> "Int"
           [] value.elems[1].type = "float" -> "Float"
           [] value.elems[1].type = "boolean" -> "Bit"
           [] value.elems[1].type = "date" -> "DateTime"
           [] OTHER -> "NVarChar(MAX)"
    ELSE "NVarChar(MAX)"

\* record[col]: the value of the property, undefined when there is none
Get(entries, col) ==
    IF \E i \in 1..Len(entries) : entries[i].key = col
    THEN entries[CHOOSE i \in 1..Len(entries) : entries[i].key = col].value
    ELSE UndefinedValue

\* fault variant: the check forgets the empty list
RecordsMissingNullOnly(records) == records.kind # "array"
\* !args.records || args.records.length === 0
RecordsMissing(records) == records.kind # "array" \/ Len(records.items) = 0

\* fault variant: the values of a record are placed by position, not by key
BulkTablePositional(a) ==
    LET firstRecord == a.records.items[1]
        columns == Keys(OwnEntries(firstRecord))
    IN [name |-> Bracket(a.table_name),
        create |-> FALSE,
        columns |-> [i \in 1..Len(columns) |->
                        [name |-> columns[i],
                         type |-> getSqlType(Get(firstRecord, columns[i])),
                         nullable |-> TRUE]],
        rows |-> [r \in 1..Len(a.records.items) |->
                     LET es == OwnEntries(a.records.items[r])
                     IN [i \in 1..Len(columns) |->
                            IF i <= Len(es) THEN es[i].value ELSE UndefinedValue]]]
BulkTable(a) ==
    LET firstRecord == a.records.items[1]
        columns == Keys(OwnEntries(firstRecord))
    IN [name |-> Bracket(a.table_name),
        create |-> FALSE,
        columns |-> [i \in 1..Len(columns) |->
                        [name |-> columns[i],
                         type |-> getSqlType(Get(firstRecord, columns[i])),
                         nullable |-> TRUE]],
        rows |-> [r \in 1..Len(a.records.items) |->
                     [i \in 1..Len(columns) |-> Get(a.records.items[r], columns[i])]]]

NoTable == [name |-> <<>>, create |-> FALSE, columns |-> <<>>, rows |-> <<>>]

(***************************************************************************)
(* The requests the tools are called with.                                 *)
(***************************************************************************)
Tools == {"list_tables", "get_table_schema", "read_table_rows",
          "create_table_records", "update_table_records", "delete_table_records"}

NoSchema == [kind |-> "undefined", chars |-> <<>>]
Schema(chars) == [kind |-> "string", chars |-> chars]

BaseArgs(tool) ==
    [tool |-> tool, table_name |-> <<"T">>, schema |-> NoSchema, columns |-> NoArray,
     filters |-> Undefined, order_by |-> Undefined, limit |-> NoNumber,
     offset |-> NoNumber, updates |-> Undefined, records |-> NoArray]

TableNames ==
    {<<"T">>, <<>>, <<"T", "]">>, <<"T", ";">>, <<"T", " ">>, <<"T", "]", " ", "@", "p">>}
ColNames == {<<"a">>, <<"1">>, <<"b", "]">>}
Scalars == {Num(1), Num(3)}
ScalarValues == {ScalarValue(s) : s \in Scalars}
ArrayValues == {ArrayValue(ss) : ss \in UNION {[1..k -> Scalars] : k \in 0..MaxInLen}}

Filter(operator, value) == [hasOperator |-> TRUE, operator |-> operator, value |-> value]
\* a filter entry that is null, or an object without an operator string
NoOperatorFilter == [hasOperator |-> FALSE, operator |-> <<>>, value |-> UndefinedValue]

LikeOps == {<<"L", "I", "K", "E">>, <<"l", "i", "k", "e">>}
InOps == {<<"I", "N">>, <<"i", "n">>}
UnsupportedOps == {<<"=", "=">>, <<"B", "E", "T", "W", "E", "E", "N">>}

FilterSpecs ==
    {Filter(o, v) : o \in ComparisonOps \cup LikeOps \cup UnsupportedOps, v \in ScalarValues}
    \cup {Filter(o, v) : o \in InOps, v \in ArrayValues \cup ScalarValues}
    \cup {Filter(<<"=">>, ArrayValue(<<Num(1)>>)), NoOperatorFilter}

\* the filters that accompany the first one in a mapping of several
CoreSpecs ==
    {Filter(<<"=">>, ScalarValue(Num(1))),
     Filter(<<"I", "N">>, ArrayValue(<<Num(1), Num(3)>>)),
     Filter(<<"B", "E", "T", "W", "E", "E", "N">>, ScalarValue(Num(1))),
     NoOperatorFilter}

\* the sequences of n distinct column names
KeySeqs(n) == {ks \in [1..n -> ColNames] : \A i, j \in 1..n : i # j => ks[i] # ks[j]}

\* the mappings of n entries, in insertion order
Mappings(n, firstValues, otherValues) ==
    {[i \in 1..n |-> Entry(ks[i], IF i = 1 THEN h ELSE t[i - 1])] :
        ks \in KeySeqs(n), h \in firstValues, t \in [1..(n - 1) -> otherValues]}

FilterMaps ==
    {Object(es) : es \in UNION {Mappings(n, FilterSpecs, CoreSpecs) : n \in 1..MaxFilters}}

SmallFilterMaps ==
    {Undefined, Null, Object(<<>>),
     Object(<<Entry(<<"b", "]">>, Filter(<<"=">>, ScalarValue(Num(1))))>>),
     Object(<<Entry(<<"a">>, Filter(<<"=", "=">>, ScalarValue(Num(1))))>>)}

ColumnLists ==
    {NoArray, Array(<<>>), Array(<<<<"a">>>>), Array(<<<<"a">>, <<"b", "]">>>>)}

Orders ==
    {Undefined, Null, Object(<<>>),
     Object(<<Entry(<<"a">>, <<"d", "e", "s", "c">>)>>),
     Object(<<Entry(<<"a">>, <<"D", "E", "S", "C">>)>>),
     Object(<<Entry(<<"b", "]">>, <<"A", "S", "C">>), Entry(<<"1">>, <<"u", "p">>)>>),
     Object(<<Entry(<<"a">>, <<"A", "S", "C">>), Entry(<<"1">>, <<"D", "e", "s", "c">>)>>),
     Object(<<Entry(<<"a">>, <<"a", "s", "c">>), Entry(<<"b", "]">>, <<"d", "e", "s", "c">>)>>)}

Limits == {NoNumber, NullNumber, Number(0), Number(2), Number(-1), Fraction(2, "5")}
Offsets == {NoNumber, Number(0), Number(5), Number(-5), Fraction(1, "5")}

\* reads that vary the filters, reads that vary the names, and reads that
\* vary the ordering and the pagination
ReadRequests ==
    {[BaseArgs("read_table_rows") EXCEPT !.filters = f] : f \in FilterMaps}
    \cup
    {[BaseArgs("read_table_rows") EXCEPT
        !.table_name = t, !.columns = cs, !.filters = f, !.order_by = o] :
        t \in TableNames, cs \in ColumnLists,
        f \in {Undefined, Object(<<Entry(<<"b", "]">>, Filter(<<"=">>, ScalarValue(Num(1))))>>)},
        o \in {Undefined, Object(<<Entry(<<"b", "]">>, <<"A", "S", "C">>)>>)}}
    \cup
    {[BaseArgs("read_table_rows") EXCEPT
        !.filters = f, !.order_by = o, !.limit = l, !.offset = off] :
        f \in SmallFilterMaps, o \in Orders, l \in Limits, off \in Offsets}

ListRequests ==
    {[BaseArgs("list_tables") EXCEPT !.schema = sc] :
        sc \in {NoSchema, Schema(<<>>), Schema(<<"d", "b", "o">>)}}

SchemaRequests ==
    {[BaseArgs("get_table_schema") EXCEPT !.table_name = t, !.schema = sc] :
        t \in TableNames, sc \in {NoSchema, Schema(<<"d", "b", "o">>)}}

\* the values of updates and of the filters of update and delete
PlainValues ==
    ScalarValues \cup {ArrayValue(<<Num(1), Num(3)>>), ObjectValue(<<">">>, Num(1))}

ValueMaps ==
    {Undefined, Null, Object(<<>>)}
    \cup {Object(es) : es \in UNION {Mappings(n, PlainValues, {ScalarValue(Num(3))}) :
                                        n \in 1..MaxFilters}}

SmallValueMaps ==
    {Undefined, Null, Object(<<>>),
     Object(<<Entry(<<"a">>, ScalarValue(Num(1)))>>),
     Object(<<Entry(<<"a">>, ObjectValue(<<">">>, Num(1))), Entry(<<"1">>, ScalarValue(Num(3)))>>)}

UpdateRequests ==
    {[BaseArgs("update_table_records") EXCEPT !.updates = u, !.filters = f] :
        u \in ValueMaps, f \in SmallValueMaps}
    \cup
    {[BaseArgs("update_table_records") EXCEPT
        !.table_name = t, !.updates = u, !.filters = f] :
        t \in TableNames, u \in SmallValueMaps, f \in ValueMaps}

DeleteRequests ==
    {[BaseArgs("delete_table_records") EXCEPT !.table_name = t, !.filters = f] :
        t \in TableNames, f \in ValueMaps}

RecordValues ==
    {ScalarValue(Num(1)), ScalarValue([type |-> "float", v |-> 1]),
     ScalarValue([type |-> "boolean", v |-> 1]), ScalarValue([type |-> "date", v |-> 1]),
     ScalarValue([type |-> "string", v |-> 1]), ScalarValue([type |-> "null", v |-> 0])}

Records == UNION {Mappings(n, RecordValues, {ScalarValue(Num(3))}) : n \in 1..2}

RecordLists ==
    {NoArray, Array(<<>>)}
    \cup {Array(<<r>>) : r \in Records}
    \cup {Array(<<r, q>>) :
            r \in {<<Entry(<<"a">>, ScalarValue(Num(1))), Entry(<<"1">>, ScalarValue(Num(3)))>>},
            q \in Records}

CreateRequests ==
    {[BaseArgs("create_table_records") EXCEPT !.table_name = t, !.records = rs] :
        t \in {<<"T">>, <<"T", "]">>}, rs \in RecordLists}

(***************************************************************************)
(* What the collaborators can answer.                                      *)
(***************************************************************************)
Cell(k, v) == [key |-> k, value |-> v]
DriverResult(recordset, rowsAffected) ==
    [recordset |-> recordset, rowsAffected |-> rowsAffected]

QueryResults(tool) ==
    CASE tool = "list_tables" ->
            {DriverResult(<<>>, 0),
             DriverResult(<<<<Cell("TABLE_NAME", 1)>>, <<Cell("TABLE_NAME", 2)>>>>, 2)}
      [] tool \in {"get_table_schema", "read_table_rows"} ->
            {DriverResult(<<>>, 0),
             DriverResult(<<<<Cell("b", 1), Cell("a", 2)>>>>, 1)}
      [] tool = "create_table_records" ->
            {DriverResult(<<>>, 0), DriverResult(<<>>, 2)}
      [] OTHER ->
            {DriverResult(<<>>, 0),
             DriverResult(<<<<Cell("RowsAffected", 5)>>>>, 5),
             DriverResult(<<<<Cell("Other", 1)>>>>, 1)}

\* how pool.close() can settle: it resolves, or it rejects and the pool is
\* then closed or still connected
CloseResults == {"resolved", "rejected", "rejectedConnected"}

(***************************************************************************)
(* The process environment and a call of connectToDb (db.ts 14-88).        *)
(***************************************************************************)
\* a variable of process.env: undefined, or a string given by its characters
Unset == [set |-> FALSE, chars |-> <<>>]
Set(chars) == [set |-> TRUE, chars |-> chars]

\* the environment of the tests (db.test.ts 26-33): the four required
\* variables and nothing else
TestEnv ==
    [MSSQL_HOST |-> Set(<<"h">>), MSSQL_USER |-> Set(<<"u">>),
     MSSQL_PASSWORD |-> Set(<<"p">>), MSSQL_DATABASE |-> Set(<<"d">>),
     MSSQL_PORT |-> Unset, MSSQL_ENCRYPT |-> Unset,
     MSSQL_TRUST_SERVER_CERTIFICATE |-> Unset, MSSQL_DRIVER |-> Unset]

NoConfig ==
    [server |-> <<>>, port |-> 0, user |-> <<>>, password |-> <<>>, database |-> <<>>,
     driver |-> Unset,
     options |-> [encrypt |-> FALSE, trustServerCertificate |-> FALSE,
                  enableArithAbort |-> FALSE],
     pool |-> [max |-> 0, min |-> 0, idleTimeoutMillis |-> 0]]
\* connectToDb is not running: no pool was constructed, pool.connect() was
\* not called, nothing was returned or thrown
NoConnect ==
    [pc |-> "idle", config |-> NoConfig, constructed |-> 0, connectCalls |-> 0,
     outcome |-> "none", error |-> <<>>]

(***************************************************************************)
(* The state: the calls in progress and the connection pools.              *)
(***************************************************************************)
CallIds == {1, 2}
PoolIds == {1, 2}
NoPool == 0

VARIABLES
    pc,          \* where each call stands
    args,        \* the argument object of each call
    pool,        \* the local variable pool of each call: a pool or null
    connects,    \* the number of times each call has called connectToDb
    request,     \* the mssql request of each call: inputs, text or table, executions
    log,         \* the warnings each call has logged
    completion,  \* the completion of each call's try block, final when pc = "done"
    result,      \* the local variable result of each call: what the driver resolved with
    pools,       \* the connection pools: connected, number of calls of close()
    env,         \* process.env: the MSSQL_ variables
    db           \* a call of connectToDb of db.ts: its position, config and outcome

vars == <<pc, args, pool, connects, request, log, completion, result, pools, env, db>>

NoRequest == [inputs |-> <<>>, text |-> <<>>, table |-> NoTable, queries |-> 0, bulks |-> 0]
NoCompletion ==
    [kind |-> "none", error |-> "", status |-> "", count |-> 0, rows |-> <<>>,
     message |-> ""]
Throw(error) == [NoCompletion EXCEPT !.kind = "throw", !.error = error]
ReturnRows(rows) == [NoCompletion EXCEPT !.kind = "return", !.rows = rows]
ReturnCount(count, message) ==
    [NoCompletion EXCEPT !.kind = "return", !.status = "Success", !.count = count,
                         !.message = message]
\* the local variable result before request.query or request.bulk has resolved
NoResult == [recordset |-> <<>>, rowsAffected |-> -1]
FreshPool == [connected |-> FALSE, closeCalls |-> 0, closeFailures |-> 0]

Init ==
    /\ pc = [c \in CallIds |-> "idle"]
    /\ args = [c \in CallIds |-> BaseArgs("list_tables")]
    /\ pool = [c \in CallIds |-> NoPool]
    /\ connects = [c \in CallIds |-> 0]
    /\ request = [c \in CallIds |-> NoRequest]
    /\ log = [c \in CallIds |-> <<>>]
    /\ completion = [c \in CallIds |-> NoCompletion]
    /\ result = [c \in CallIds |-> NoResult]
    /\ pools = [p \in PoolIds |-> FreshPool]
    /\ env = TestEnv
    /\ db = NoConnect

(***************************************************************************)
(* The calls: each tool function up to its first await.                    *)
(***************************************************************************)
\* the function reaches `pool = await connectToDb()`
CallsConnect(c, a) ==
    /\ pc' = [pc EXCEPT ![c] = "connecting"]
    /\ args' = [args EXCEPT ![c] = a]
    /\ connects' = [connects EXCEPT ![c] = 1]
    /\ UNCHANGED <<pool, request, log, completion, result, pools, env, db>>

\* the function returns or throws before it calls connectToDb
EndsEarly(c, a, outcome) ==
    /\ pc' = [pc EXCEPT ![c] = "done"]
    /\ args' = [args EXCEPT ![c] = a]
    /\ completion' = [completion EXCEPT ![c] = outcome]
    /\ UNCHANGED <<pool, connects, request, log, result, pools, env, db>>

list_tables(c, a) ==
    /\ pc[c] = "idle"
    /\ CallsConnect(c, a)

get_table_schema(c, a) ==
    /\ pc[c] = "idle"
    /\ CallsConnect(c, a)

read_table_rows(c, a) ==
    /\ pc[c] = "idle"
    /\ CallsConnect(c, a)

create_table_records(c, a) ==
    /\ pc[c] = "idle"
    /\ IF a.records.kind # "array"
       THEN EndsEarly(c, a, Throw("TypeError"))
       ELSE IF RecordsMissing(a.records)
       THEN EndsEarly(c, a, Throw("No records provided to insert."))
       ELSE CallsConnect(c, a)

update_table_records(c, a) ==
    /\ pc[c] = "idle"
    /\ IF FiltersMissing(a.filters)
       THEN EndsEarly(c, a, Throw("Filters are required for update operations to prevent accidental full table updates."))
       ELSE IF UpdatesMissing(a.updates)
       THEN EndsEarly(c, a, ReturnCount(0, "No update values provided."))
       ELSE CallsConnect(c, a)

delete_table_records(c, a) ==
    /\ pc[c] = "idle"
    /\ IF FiltersMissing(a.filters)
       THEN EndsEarly(c, a, Throw("Filters are required for delete operations to prevent accidental full table deletion."))
       ELSE CallsConnect(c, a)

(***************************************************************************)
(* The finally block: closePoolSafely (server.ts 216-225).                 *)
(***************************************************************************)
\* fault variant: the test of pool.connected is negated
closePoolSafelyNegated(p, thePools) == p # NoPool /\ ~thePools[p].connected
\* `pool && pool.connected`: whether closePoolSafely calls pool.close()
closePoolSafely(p, thePools) == p # NoPool /\ thePools[p].connected

\* fault variant: the catch block logs the error and returns an empty result
CatchSwallows(error) == ReturnRows(<<>>)
\* the catch block of every tool function: log the error and throw it again
Catch(error) == Throw(error)

\* fault variant: the finally block ends the call and closes nothing
FinallyWithoutClose(c, p, thePools, outcome) ==
    /\ completion' = [completion EXCEPT ![c] = outcome]
    /\ pools' = thePools
    /\ pc' = [pc EXCEPT ![c] = "done"]
\* the try block has completed with outcome; run the finally block up to the
\* await of pool.close(), or to the end of the call when nothing is closed
Finally(c, p, thePools, outcome) ==
    /\ completion' = [completion EXCEPT ![c] = outcome]
    /\ IF closePoolSafely(p, thePools)
       THEN /\ pools' = [thePools EXCEPT ![p].closeCalls = @ + 1]
            /\ pc' = [pc EXCEPT ![c] = "closing"]
       ELSE /\ pools' = thePools
            /\ pc' = [pc EXCEPT ![c] = "done"]

(***************************************************************************)
(* connectToDb settles (db.ts 14-88); on success the function builds its   *)
(* statement and calls request.query or request.bulk.                      *)
(***************************************************************************)
Build(a) ==
    CASE a.tool = "list_tables" -> ListBuild(a)
      [] a.tool = "get_table_schema" -> SchemaBuild(a)
      [] a.tool = "read_table_rows" -> ReadBuild(a)
      [] a.tool = "update_table_records" -> UpdateBuild(a)
      [] a.tool = "delete_table_records" -> DeleteBuild(a)
      [] OTHER -> [threw |-> Len(a.records.items) = 0, inputs |-> <<>>,
                   warnings |-> <<>>, text |-> <<>>]

\* fault variant: connectToDb hands every call the same module-level pool
FreePoolShared == CHOOSE p \in PoolIds : \A q \in PoolIds : p <= q
\* connectToDb constructs a new pool: one that no call in progress holds
FreePool == CHOOSE p \in PoolIds : \A c \in CallIds : pool[c] # p

\* fault variant: a rejected connectToDb is tried again, up to three times
connectToDbRetried(c) ==
    /\ pc[c] = "connecting"
    /\ IF connects[c] < 3
       THEN /\ connects' = [connects EXCEPT ![c] = @ + 1]
            /\ UNCHANGED <<pc, completion, pools>>
       ELSE /\ Finally(c, pool[c], pools, Catch("ConnectError"))
            /\ UNCHANGED connects
    /\ UNCHANGED <<args, pool, request, log, result, env, db>>

connectToDbRejects(c) ==
    /\ pc[c] = "connecting"
    /\ Finally(c, pool[c], pools, Catch("ConnectError"))
    /\ UNCHANGED <<args, pool, connects, request, log, result, env, db>>

connectToDbResolves(c) ==
    /\ pc[c] = "connecting"
    /\ LET p == FreePool
           opened == [pools EXCEPT ![p] = [FreshPool EXCEPT !.connected = TRUE]]
           b == Build(args[c])
       IN /\ pool' = [pool EXCEPT ![c] = p]
          /\ log' = [log EXCEPT ![c] = b.warnings]
          /\ IF b.threw
             THEN /\ request' = [request EXCEPT ![c].inputs = b.inputs]
                  /\ Finally(c, p, opened, Catch("TypeError"))
             ELSE /\ request' =
                        [request EXCEPT ![c] =
                            IF args[c].tool = "create_table_records"
                            THEN [NoRequest EXCEPT !.table = BulkTable(args[c]), !.bulks = 1]
                            ELSE [NoRequest EXCEPT !.inputs = b.inputs, !.text = b.text,
                                                   !.queries = 1]]
                  /\ pools' = opened
                  /\ pc' = [pc EXCEPT ![c] = "querying"]
                  /\ UNCHANGED completion
    /\ UNCHANGED <<args, connects, result, env, db>>

(***************************************************************************)
(* request.query / request.bulk settles; the function shapes the result    *)
(* and enters the finally block.                                           *)
(***************************************************************************)
\* fault variant: the count is the first field of the first row, whatever its name
RowsAffectedFirstField(recordset) ==
    IF Len(recordset) > 0 /\ Len(recordset[1]) > 0 THEN recordset[1][1].value ELSE 0
\* result.recordset[0]?.RowsAffected ?? 0
RowsAffected(recordset) ==
    IF Len(recordset) > 0 /\ \E i \in 1..Len(recordset[1]) : recordset[1][i].key = "RowsAffected"
    THEN recordset[1][CHOOSE i \in 1..Len(recordset[1]) :
                          recordset[1][i].key = "RowsAffected"].value
    ELSE 0

\* result.recordset.map(row => row.TABLE_NAME)
TableNamesOf(recordset) ==
    [r \in 1..Len(recordset) |->
        IF \E i \in 1..Len(recordset[r]) : recordset[r][i].key = "TABLE_NAME"
        THEN <<recordset[r][CHOOSE i \in 1..Len(recordset[r]) :
                               recordset[r][i].key = "TABLE_NAME"].value>>
        ELSE <<>>]

Shape(tool, res) ==
    CASE tool = "list_tables" -> ReturnRows(TableNamesOf(res.recordset))
      [] tool \in {"get_table_schema", "read_table_rows"} -> ReturnRows(res.recordset)
      [] tool = "create_table_records" -> ReturnCount(res.rowsAffected, "")
      [] OTHER -> ReturnCount(RowsAffected(res.recordset), "")

queryResolves(c) ==
    /\ pc[c] = "querying"
    /\ \E res \in QueryResults(args[c].tool) :
          /\ result' = [result EXCEPT ![c] = res]
          /\ Finally(c, pool[c], pools, Shape(args[c].tool, res))
    /\ UNCHANGED <<args, pool, connects, request, log, env, db>>

queryRejects(c) ==
    /\ pc[c] = "querying"
    /\ Finally(c, pool[c], pools, Catch("QueryError"))
    /\ UNCHANGED <<args, pool, connects, request, log, result, env, db>>

(***************************************************************************)
(* pool.close() settles: a rejection is logged and nothing else; the       *)
(* function then returns or re-throws what the try block completed with.   *)
(***************************************************************************)
\* fault variant: a rejection of pool.close() leaves the finally block and
\* becomes the outcome of the call
closeSettlesThrowing(c) ==
    /\ pc[c] = "closing"
    /\ \E r \in CloseResults :
          /\ pools' = [pools EXCEPT
                         ![pool[c]].connected = (r = "rejectedConnected"),
                         ![pool[c]].closeFailures = IF r = "resolved" THEN @ ELSE @ + 1]
          /\ completion' = [completion EXCEPT
                              ![c] = IF r = "resolved" THEN @ ELSE Throw("CloseError")]
    /\ pc' = [pc EXCEPT ![c] = "done"]
    /\ UNCHANGED <<args, pool, connects, request, log, result, env, db>>

\* the await of pool.close() in closePoolSafely settles
closeSettles(c) ==
    /\ pc[c] = "closing"
    /\ \E r \in CloseResults :
          pools' = [pools EXCEPT
                      ![pool[c]].connected = (r = "rejectedConnected"),
                      ![pool[c]].closeFailures = IF r = "resolved" THEN @ ELSE @ + 1]
    /\ pc' = [pc EXCEPT ![c] = "done"]
    /\ UNCHANGED <<args, pool, connects, request, log, completion, result, env, db>>

\* the caller has the outcome; the call's objects are garbage
Reply(c) ==
    /\ pc[c] = "done"
    /\ pc' = [pc EXCEPT ![c] = "idle"]
    /\ args' = [args EXCEPT ![c] = BaseArgs("list_tables")]
    /\ pools' = [p \in PoolIds |-> IF p = pool[c] THEN FreshPool ELSE pools[p]]
    /\ pool' = [pool EXCEPT ![c] = NoPool]
    /\ connects' = [connects EXCEPT ![c] = 0]
    /\ request' = [request EXCEPT ![c] = NoRequest]
    /\ log' = [log EXCEPT ![c] = <<>>]
    /\ completion' = [completion EXCEPT ![c] = NoCompletion]
    /\ result' = [result EXCEPT ![c] = NoResult]
    /\ UNCHANGED <<env, db>>

(***************************************************************************)
(* The server handling one call at a time.                                 *)
(***************************************************************************)
Next ==
    \/ \E a \in ListRequests : list_tables(1, a)
    \/ \E a \in SchemaRequests : get_table_schema(1, a)
    \/ \E a \in ReadRequests : read_table_rows(1, a)
    \/ \E a \in CreateRequests : create_table_records(1, a)
    \/ \E a \in UpdateRequests : update_table_records(1, a)
    \/ \E a \in DeleteRequests : delete_table_records(1, a)
    \/ connectToDbRejects(1)
    \/ connectToDbResolves(1)
    \/ queryResolves(1)
    \/ queryRejects(1)
    \/ closeSettles(1)
    \/ Reply(1)

Spec == Init /\ [][Next]_vars

(***************************************************************************)
(* Properties of the connection life cycle and of the argument checks.     *)
(***************************************************************************)
\* the call has called connectToDb and it has resolved with a pool
Acquired(c) == pool[c] # NoPool
\* the call has called connectToDb and it has rejected
AcquisitionFailed(c) == pc[c] = "done" /\ connects[c] = 1 /\ pool[c] = NoPool
\* the call has called request.query or request.bulk
Executed(c) == request[c].queries + request[c].bulks > 0
\* no pool.close() has been called on any pool
NothingReleased == \A p \in PoolIds : pools[p].closeCalls = 0
\* a mapping argument that is missing, null or empty
AbsentOrEmpty(m) == m.kind \in {"undefined", "null"} \/ (m.kind = "object" /\ m.entries = <<>>)

\* C1: whenever connectToDb has given a call its pool, close() has been called
\* on that pool at most once so far, and exactly once when the call has
\* returned or thrown and while it awaits the close, on the success and on
\* the failure path of every tool.
C1_ReleasedExactlyOnce ==
    \A c \in CallIds :
        Acquired(c) =>
            /\ pools[pool[c]].closeCalls <= 1
            /\ pc[c] = "querying" => pools[pool[c]].closeCalls = 0
            /\ pc[c] \in {"closing", "done"} => pools[pool[c]].closeCalls = 1
            /\ pc[c] = "done" => completion[c].kind \in {"return", "throw"}

C1_Witness ==
    \E c \in CallIds :
        /\ pc[c] = "done" /\ Acquired(c)
        /\ completion[c] = Throw("QueryError")
        /\ pools[pool[c]].closeCalls = 1

\* C2: a call whose connectToDb rejected has thrown the connection error, has
\* executed no query and no bulk insert, and no close() has been called.
C2_AcquisitionFailureSkipsRelease ==
    \A c \in CallIds :
        AcquisitionFailed(c) =>
            /\ completion[c] = Throw("ConnectError")
            /\ ~Executed(c)
            /\ request[c] = NoRequest
            /\ NothingReleased

C2_Witness ==
    \E c \in CallIds :
        /\ AcquisitionFailed(c)
        /\ args[c].tool = "delete_table_records"
        /\ completion[c].kind = "throw"

\* C3: update_table_records and delete_table_records called with filters that
\* are missing, null or empty throw the tool's 'Filters are required' error at
\* once: connectToDb is never called and nothing is executed, whatever the
\* updates are.
C3_FiltersRequired ==
    \A c \in CallIds :
        (/\ pc[c] # "idle"
         /\ args[c].tool \in {"update_table_records", "delete_table_records"}
         /\ AbsentOrEmpty(args[c].filters)) =>
            /\ pc[c] = "done"
            /\ completion[c].kind = "throw"
            /\ completion[c].error =
                 (IF args[c].tool = "update_table_records"
                  THEN "Filters are required for update operations to prevent accidental full table updates."
                  ELSE "Filters are required for delete operations to prevent accidental full table deletion.")
            /\ connects[c] = 0 /\ ~Acquired(c) /\ ~Executed(c)

C3_Witness ==
    \E c \in CallIds :
        /\ pc[c] = "done"
        /\ args[c].tool = "update_table_records"
        /\ args[c].filters = Object(<<>>)
        /\ ~AbsentOrEmpty(args[c].updates)
        /\ completion[c].kind = "throw"

C5_NoRecords ==
    \A c \in CallIds :
        (/\ pc[c] # "idle"
         /\ args[c].tool = "create_table_records"
         /\ args[c].records.kind = "array"
         /\ args[c].records.items = <<>>) =>
            /\ pc[c] = "done"
            /\ completion[c] = Throw("No records provided to insert.")
            /\ connects[c] = 0 /\ ~Acquired(c) /\ ~Executed(c)

C5_Witness ==
    \E c \in CallIds :
        /\ pc[c] = "done"
        /\ args[c].tool = "create_table_records"
        /\ args[c].records = Array(<<>>)
        /\ completion[c].kind = "throw"

(***************************************************************************)
(* Properties of the statements that are executed.                         *)
(***************************************************************************)
IdentifierChars ==
    Range(LowerChars) \cup Range(UpperChars) \cup Range(DigitChars) \cup {"_"}
\* a name of the grammar [A-Za-z0-9_]+
ValidIdentifier(name) ==
    Len(name) > 0 /\ \A i \in 1..Len(name) : name[i] \in IdentifierChars

KeySet(m) == IF m.kind = "object" THEN {m.entries[i].key : i \in 1..Len(m.entries)} ELSE {}
\* the table and column names of a request
NamesOf(a) ==
    {a.table_name}
    \cup (IF a.columns.kind = "array" THEN Range(a.columns.items) ELSE {})
    \cup KeySet(a.filters) \cup KeySet(a.order_by) \cup KeySet(a.updates)
    \cup (IF a.records.kind = "array" /\ Len(a.records.items) > 0
          THEN {a.records.items[1][i].key : i \in 1..Len(a.records.items[1])} ELSE {})
\* the name stands, in brackets, in the text that was executed, or names the
\* table or a column of the bulk insert that was executed
NamePlaced(c, name) ==
    \/ request[c].queries > 0 /\ Contains(request[c].text, Bracket(name))
    \/ request[c].bulks > 0 /\ request[c].table.name = Bracket(name)
    \/ request[c].bulks > 0
         /\ \E i \in 1..Len(request[c].table.columns) : request[c].table.columns[i].name = name

\* C6: in read_table_rows, create_table_records, update_table_records and
\* delete_table_records a table or column name that is empty or has a
\* character outside [A-Za-z0-9_] is never part of a statement that is
\* executed, and a call with such a name that got its connection ends by
\* throwing an invalid-identifier error.
C6_InvalidIdentifierRejected ==
    \A c \in CallIds :
        (/\ pc[c] # "idle"
         /\ args[c].tool \in {"read_table_rows", "create_table_records",
                              "update_table_records", "delete_table_records"}) =>
            \A name \in NamesOf(args[c]) :
                ~ValidIdentifier(name) =>
                    /\ ~NamePlaced(c, name)
                    /\ (pc[c] = "done" /\ Acquired(c)) =>
                           completion[c] = Throw("InvalidIdentifier")

\* the requests that differ from a request only in the scalars of the values
\* of its filters and updates: every entry's scalars are replaced through one
\* of the substitutions
Text(n) == [type |-> "string", v |-> n]
Substitutions ==
    {[s \in Scalars |-> IF s = Num(1) THEN Num(3) ELSE Num(1)],
     [s \in Scalars |-> Num(1)],
     [s \in Scalars |-> Text(1)]}
Substitute(value, sub) ==
    [value EXCEPT !.elems = [i \in 1..Len(value.elems) |-> sub[value.elems[i]]]]
ReadVariants(a) ==
    LET es == a.filters.entries
    IN {[a EXCEPT !.filters.entries =
            [i \in 1..Len(es) |->
                Entry(es[i].key,
                      [es[i].value EXCEPT !.value = Substitute(es[i].value.value, subs[i])])]] :
        subs \in [1..Len(es) -> Substitutions]}
WriteVariants(a) ==
    LET us == a.updates.entries
        fs == a.filters.entries
    IN {[a EXCEPT
            !.updates.entries =
                [i \in 1..Len(us) |-> Entry(us[i].key, Substitute(us[i].value, su[i]))],
            !.filters.entries =
                [i \in 1..Len(fs) |-> Entry(fs[i].key, Substitute(fs[i].value, sf[i]))]] :
        su \in [1..Len(us) -> Substitutions], sf \in [1..Len(fs) -> Substitutions]}
Variants(a) == IF a.tool = "read_table_rows" THEN ReadVariants(a) ELSE WriteVariants(a)

InputNames(inputs) == [i \in 1..Len(inputs) |-> inputs[i].name]
InputValues(inputs) == {inputs[i].value : i \in 1..Len(inputs)}
SupportedOps ==
    ComparisonOps \cup {<<"L", "I", "K", "E">>, <<"I", "N">>}

\* C7: the text that read_table_rows, update_table_records and
\* delete_table_records execute is the same, piece for piece, for every
\* request that differs only in the scalars of its filter and update values,
\* and so are the names of the bindings; the values themselves are bound:
\* every value of updates and of the filters of update and delete, every
\* value of a comparison or LIKE filter and every element of an IN array.
C7_ValuesNeverInlined ==
    \A c \in CallIds :
        (/\ pc[c] = "querying"
         /\ args[c].tool \in {"read_table_rows", "update_table_records",
                              "delete_table_records"}) =>
            /\ \A b \in Variants(args[c]) :
                  /\ Build(b).text = request[c].text
                  /\ InputNames(Build(b).inputs) = InputNames(request[c].inputs)
            /\ args[c].tool # "read_table_rows" =>
                  \A v \in {args[c].updates.entries[i].value :
                                i \in 1..Len(args[c].updates.entries)}
                           \cup {args[c].filters.entries[i].value :
                                i \in 1..Len(args[c].filters.entries)} :
                      v \in InputValues(request[c].inputs)
            /\ args[c].tool = "read_table_rows" =>
                  \A i \in 1..Len(args[c].filters.entries) :
                      LET f == args[c].filters.entries[i].value
                          opU == toUpperCase(f.operator)
                      IN /\ opU \in SupportedOps \ {<<"I", "N">>} =>
                                f.value \in InputValues(request[c].inputs)
                         /\ (opU = <<"I", "N">> /\ f.value.kind = "array") =>
                                \A j \in 1..Len(f.value.elems) :
                                    ScalarValue(f.value.elems[j])
                                        \in InputValues(request[c].inputs)

C7_Witness ==
    \E c \in CallIds :
        /\ pc[c] = "querying"
        /\ args[c].tool = "read_table_rows"
        /\ Len(args[c].filters.entries) = 2
        /\ args[c].filters.entries[1].value.operator = <<"i", "n">>
        /\ args[c].filters.entries[1].value.value = ArrayValue(<<Num(1), Num(3)>>)
        /\ args[c].filters.entries[2].value.operator = <<"=">>
        /\ \E b \in Variants(args[c]) : b # args[c] /\ Build(b).text = request[c].text

\* the filters of a read in the order of the loop, and the base placeholder
\* name of the filter at position k, counted from 0
LoopEntries(a) == IF a.filters.kind = "object" THEN OwnEntries(a.filters.entries) ELSE <<>>
BaseName(k) == "filterParam" \o ToString(k)
\* the parameter names that belong to position k: the base name and the base
\* name followed by _ and an index
NamesAt(k) == {BaseName(k)} \cup {BaseName(k) \o "_" \o ToString(i) : i \in 0..(MaxInLen + 1)}
Mentions(c, k) ==
    \/ \E i \in 1..Len(request[c].inputs) : request[c].inputs[i].name \in NamesAt(k)
    \/ \E i \in 1..Len(request[c].text) : request[c].text[i] \in {"@" \o n : n \in NamesAt(k)}
Logged(c, kind, col) == \E i \in 1..Len(log[c]) : log[c][i] = Warning(kind, col)
\* a read that got its connection and whose filters all have an operator string
WellFormedRead(c) ==
    /\ pc[c] \in {"querying", "closing", "done"}
    /\ args[c].tool = "read_table_rows"
    /\ Acquired(c)
    /\ \A i \in 1..Len(LoopEntries(args[c])) : LoopEntries(args[c])[i].value.hasOperator

C9_InExpansion ==
    \A c \in CallIds :
        WellFormedRead(c) =>
            LET es == LoopEntries(args[c])
                ins == request[c].inputs
            IN \A k \in 1..Len(es) :
                  toUpperCase(es[k].value.operator) = <<"I", "N">> =>
                     LET v == es[k].value.value
                         n == Len(v.elems)
                         P(i) == BaseName(k - 1) \o "_" \o ToString(i)
                     IN IF v.kind = "array" /\ n >= 1
                        THEN /\ Contains(request[c].text,
                                     Bracket(es[k].key) \o <<" IN (">>
                                     \o join([i \in 1..n |-> <<"@" \o P(i - 1)>>], ", ")
                                     \o <<")">>)
                             /\ \A i \in 1..n :
                                   /\ Cardinality({j \in 1..Len(ins) : ins[j].name = P(i - 1)}) = 1
                                   /\ \E j \in 1..Len(ins) :
                                         /\ ins[j].name = P(i - 1)
                                         /\ ins[j].value = ScalarValue(v.elems[i])
                                         /\ i < n => ins[j + 1].name = P(i)
                             /\ ~Logged(c, "InvalidInValue", es[k].key)
                        ELSE /\ ~Mentions(c, k - 1)
                             /\ ~Contains(request[c].text, Bracket(es[k].key) \o <<" IN (">>)
                             /\ Logged(c, "InvalidInValue", es[k].key)

C9_Witness ==
    \E c \in CallIds :
        /\ WellFormedRead(c)
        /\ pc[c] = "querying"
        /\ Len(LoopEntries(args[c])) = 2
        /\ LoopEntries(args[c])[2].value = Filter(<<"I", "N">>, ArrayValue(<<Num(1), Num(3)>>))
        /\ Contains(request[c].text, <<" IN (", "@filterParam1_0", ", ", "@filterParam1_1", ")">>)

\* C10: in the query of a read every OFFSET stands after an ORDER BY; when a
\* limit or an offset is given and order_by has no entries the ordering is
\* ORDER BY (SELECT 1) and the pagination warning is logged; when neither is
\* given and order_by is absent the text has no ORDER BY and no OFFSET and the
\* warning is not logged.
C10_OffsetNeedsOrderBy ==
    \A c \in CallIds :
        (/\ pc[c] \in {"querying", "closing", "done"}
         /\ args[c].tool = "read_table_rows"
         /\ request[c].queries = 1) =>
            LET text == request[c].text
                a == args[c]
                Has(piece) == \E i \in 1..Len(text) : text[i] = piece
                given == a.limit.kind = "number" \/ a.offset.kind = "number"
            IN /\ \A i \in 1..Len(text) :
                     text[i] = " OFFSET " =>
                        \E j \in 1..(i - 1) :
                            text[j] \in {" ORDER BY ", " ORDER BY (SELECT 1)"}
               /\ (given /\ Len(a.order_by.entries) = 0) =>
                     /\ Has(" ORDER BY (SELECT 1)")
                     /\ Has(" OFFSET ")
                     /\ Logged(c, "PaginationWithoutOrder", <<>>)
               /\ (~given /\ a.order_by.kind \in {"undefined", "null"}) =>
                     /\ ~Has(" ORDER BY ") /\ ~Has(" ORDER BY (SELECT 1)")
                     /\ ~Has(" OFFSET ")
                     /\ ~Logged(c, "PaginationWithoutOrder", <<>>)

C10_Witness ==
    \E c \in CallIds :
        /\ pc[c] = "querying"
        /\ args[c].tool = "read_table_rows"
        /\ args[c].limit.kind = "undefined"
        /\ args[c].offset = Number(5)
        /\ args[c].order_by = Object(<<>>)
        /\ Logged(c, "PaginationWithoutOrder", <<>>)
        /\ Contains(request[c].text, <<" ORDER BY (SELECT 1)", " OFFSET ", "5", " ROWS", ";">>)

(***************************************************************************)
(* Properties of pagination, of the row count and of the parameter names.  *)
(***************************************************************************)
\* a read that has handed its query to request.query
ReadExecuted(c) ==
    /\ pc[c] \in {"querying", "closing", "done"}
    /\ args[c].tool = "read_table_rows"
    /\ request[c].queries = 1

\* C11: the query of a read with a limit or an offset has OFFSET <n> ROWS,
\* n being the offset or 0 when only the limit is given; FETCH NEXT <limit>
\* ROWS ONLY follows it exactly when the limit is given and greater than 0,
\* and otherwise the text has no FETCH at all; the statement ends there.
C11_OffsetFetchRendering ==
    \A c \in CallIds :
        (ReadExecuted(c) /\ (args[c].limit.kind = "number" \/ args[c].offset.kind = "number")) =>
            LET text == request[c].text
                limit == args[c].limit
                n == IF args[c].offset.kind = "number" THEN args[c].offset ELSE Number(0)
                offsetClause == <<" OFFSET ", NumberText(n), " ROWS">>
                fetchClause == <<" FETCH NEXT ", NumberText(limit), " ROWS ONLY">>
                EndOf(clause) == SubSeq(text, Len(text) - Len(clause) + 1, Len(text))
            IN /\ Cardinality({i \in 1..Len(text) : text[i] = " OFFSET "}) = 1
               /\ IF limit.kind = "number" /\ GreaterThanZero(limit)
                  THEN EndOf(offsetClause \o fetchClause \o <<";">>)
                          = offsetClause \o fetchClause \o <<";">>
                  ELSE /\ EndOf(offsetClause \o <<";">>) = offsetClause \o <<";">>
                       /\ \A i \in 1..Len(text) : text[i] # " FETCH NEXT "

C11_Witness ==
    \E c \in CallIds :
        /\ ReadExecuted(c)
        /\ args[c].limit = Number(-1)
        /\ args[c].offset.kind = "undefined"
        /\ Contains(request[c].text, <<" OFFSET ", "0", " ROWS", ";">>)
        /\ ~Contains(request[c].text, <<" FETCH NEXT ">>)

\* an update or delete that has handed its statement to request.query
WriteExecuted(c) ==
    /\ pc[c] \in {"querying", "closing", "done"}
    /\ args[c].tool \in {"update_table_records", "delete_table_records"}
    /\ request[c].queries = 1

\* C12: the statement of an update or delete ends with
\* SELECT @@ROWCOUNT AS RowsAffected, and when the driver has resolved the
\* call returns status 'Success' with the count that is the RowsAffected
\* field of the first row of the driver's record set, or 0 when there is no
\* row or the row has no such field.
C12_RowCountFromFirstRow ==
    \A c \in CallIds :
        WriteExecuted(c) =>
            LET text == request[c].text
                rows == result[c].recordset
                fields == IF Len(rows) > 0
                          THEN {i \in 1..Len(rows[1]) : rows[1][i].key = "RowsAffected"}
                          ELSE {}
            IN /\ text[Len(text)] = "; SELECT @@ROWCOUNT AS RowsAffected;"
               /\ (pc[c] \in {"closing", "done"} /\ result[c] # NoResult) =>
                     /\ completion[c].kind = "return"
                     /\ completion[c].status = "Success"
                     /\ IF fields = {}
                        THEN completion[c].count = 0
                        ELSE \E i \in fields : completion[c].count = rows[1][i].value

C12_Witness ==
    \E c \in CallIds :
        /\ WriteExecuted(c)
        /\ pc[c] = "done"
        /\ args[c].tool = "delete_table_records"
        /\ result[c].recordset = <<<<Cell("RowsAffected", 5)>>>>
        /\ completion[c].count = 5

\* C13: an update with n entries of updates and m entries of filters binds
\* setParam0..setParam(n-1) and then filterParam(n)..filterParam(n+m-1), in
\* that order and nothing else; the SET clauses name the first n and the WHERE
\* clauses the last m, so each of the numbers 0..n+m-1 is used by one name and
\* the n+m names differ, also when a column is in updates and in filters.
C13_SharedParameterCounter ==
    \A c \in CallIds :
        (WriteExecuted(c) /\ args[c].tool = "update_table_records") =>
            LET us == OwnEntries(args[c].updates.entries)
                fs == OwnEntries(args[c].filters.entries)
                n == Len(us)
                m == Len(fs)
                ins == request[c].inputs
                text == request[c].text
                Name(k) == IF k < n THEN "setParam" \o ToString(k)
                                    ELSE "filterParam" \o ToString(k)
                where == CHOOSE i \in 1..Len(text) : text[i] = " WHERE "
            IN /\ Len(ins) = n + m
               /\ \A k \in 0..(n + m - 1) : ins[k + 1].name = Name(k)
               /\ \A i, j \in 1..Len(ins) : i # j => ins[i].name # ins[j].name
               /\ \A k \in 0..(n - 1) :
                     /\ ins[k + 1].value = us[k + 1].value
                     /\ \E i \in 1..(where - 1) : text[i] = "@" \o Name(k)
                     /\ \A i \in where..Len(text) : text[i] # "@" \o Name(k)
               /\ \A k \in n..(n + m - 1) :
                     /\ ins[k + 1].value = fs[k - n + 1].value
                     /\ \E i \in where..Len(text) : text[i] = "@" \o Name(k)
                     /\ \A i \in 1..(where - 1) : text[i] # "@" \o Name(k)

C13_Witness ==
    \E c \in CallIds :
        /\ WriteExecuted(c)
        /\ args[c].tool = "update_table_records"
        /\ Len(args[c].updates.entries) = 2
        /\ KeySet(args[c].updates) = KeySet(args[c].filters)
        /\ InputNames(request[c].inputs)
             = <<"setParam0", "setParam1", "filterParam2", "filterParam3">>

(***************************************************************************)
(* Properties of failure, termination and retry.                           *)
(***************************************************************************)
\* the call's request.query or request.bulk has rejected
ExecutionFailed(c) ==
    /\ pc[c] \in {"closing", "done"}
    /\ Executed(c)
    /\ result[c] = NoResult

\* C14: a call whose connectToDb rejected ends by throwing the connection
\* error and a call whose query or bulk insert rejected ends by throwing that
\* error, for every tool; a call that called connectToDb and returns a
\* result has got its pool and the driver's result of its one execution.
C14_FailureNotSwallowed ==
    \A c \in CallIds :
        /\ AcquisitionFailed(c) => completion[c] = Throw("ConnectError")
        /\ ExecutionFailed(c) => completion[c] = Throw("QueryError")
        /\ (pc[c] \in {"closing", "done"} /\ connects[c] = 1
              /\ completion[c].kind = "return") =>
               Acquired(c) /\ Executed(c) /\ result[c] # NoResult

C14_Witness ==
    \E c \in CallIds :
        /\ ExecutionFailed(c)
        /\ pc[c] = "done"
        /\ args[c].tool = "create_table_records"
        /\ request[c].bulks = 1
        /\ completion[c] = Throw("QueryError")
        /\ pools[pool[c]].closeCalls = 1

\* the collaborators answer: an awaited connectToDb, query, bulk or close
\* settles, and the caller takes the outcome
Fairness ==
    /\ WF_vars(connectToDbRejects(1) \/ connectToDbResolves(1))
    /\ WF_vars(queryResolves(1) \/ queryRejects(1))
    /\ WF_vars(closeSettles(1))
    /\ WF_vars(Reply(1))

FairSpec == Spec /\ Fairness

\* the call has ended and close() was called once on the pool it had got
Released(c) ==
    /\ pc[c] = "done"
    /\ Acquired(c)
    /\ pools[pool[c]].closeCalls = 1
\* the call has ended by throwing and never had a pool
FailedWithoutPool(c) ==
    /\ pc[c] = "done"
    /\ ~Acquired(c)
    /\ completion[c].kind = "throw"
    /\ ~Executed(c)
\* the update without values: success, and connectToDb was never called
NoOpUpdate(c) ==
    /\ pc[c] = "done"
    /\ ~Acquired(c) /\ connects[c] = 0 /\ ~Executed(c)
    /\ args[c].tool = "update_table_records"
    /\ AbsentOrEmpty(args[c].updates)
    /\ completion[c] = ReturnCount(0, "No update values provided.")

toolImplementations == Tools
\* a key every object literal inherits from Object.prototype: the lookup
\* toolImplementations[name] finds the function Object under it
InheritedKeys == {"constructor"}
\* the cases of the switch of index.ts
SwitchCases == {"list_tables", "get_table_schema", "read_table_rows"}
\* the names a request can carry
ToolNames == Tools \cup InheritedKeys \cup {"drop_table"}

\* request.params.arguments: an object, or none
Arguments(a) == [present |-> TRUE, value |-> a]
NoArguments == [present |-> FALSE, value |-> BaseArgs("list_tables")]

CallInputs(name) ==
    CASE name = "list_tables" -> ListRequests
      [] name = "get_table_schema" ->
            {a \in SchemaRequests : a.table_name \in {<<"T">>, <<"T", "]">>}}
      [] name = "read_table_rows" ->
            {[BaseArgs("read_table_rows") EXCEPT !.limit = l, !.offset = off, !.order_by = o] :
                l \in {NoNumber, NullNumber, Number(2)}, off \in {NoNumber, Number(5)},
                o \in {Undefined, Object(<<Entry(<<"a">>, <<"d", "e", "s", "c">>)>>)}}
      [] name = "create_table_records" ->
            {[BaseArgs(name) EXCEPT !.records = r] :
                r \in {NoArray, Array(<<>>), Array(<<<<Entry(<<"a">>, ScalarValue(Num(1)))>>>>)}}
      [] name = "update_table_records" ->
            {[BaseArgs(name) EXCEPT !.updates = u, !.filters = f] :
                u \in {Undefined, Object(<<Entry(<<"a">>, ScalarValue(Num(3)))>>)},
                f \in {Undefined, Object(<<Entry(<<"a">>, ScalarValue(Num(1)))>>)}}
      [] name = "delete_table_records" ->
            {[BaseArgs(name) EXCEPT !.filters = f] :
                f \in {Undefined, Object(<<Entry(<<"a">>, ScalarValue(Num(1)))>>)}}
      [] OTHER -> {[BaseArgs(name) EXCEPT !.schema = Schema(<<"d", "b", "o">>)]}

\* toolFunction(input): the tool function of that name runs on the object
Invoke(c, name, a) ==
    \/ name = "list_tables" /\ list_tables(c, a)
    \/ name = "get_table_schema" /\ get_table_schema(c, a)
    \/ name = "read_table_rows" /\ read_table_rows(c, a)
    \/ name = "create_table_records" /\ create_table_records(c, a)
    \/ name = "update_table_records" /\ update_table_records(c, a)
    \/ name = "delete_table_records" /\ delete_table_records(c, a)

\* Object(input) gives the input object back, and the handler returns it
ReturnInput == [NoCompletion EXCEPT !.kind = "return", !.message = "input"]

\* server.ts 619-644; a request without arguments runs the function on {},
\* which is drawn here for list_tables, whose arguments are all optional
CallTool(c, toolName, input) ==
    /\ pc[c] = "idle"
    /\ input.present \/ toolName \notin Tools \ {"list_tables"}
    /\ LET a == IF input.present THEN input.value ELSE BaseArgs(toolName)
       IN IF toolName \in toolImplementations
          THEN Invoke(c, toolName, a)
          ELSE IF toolName \in InheritedKeys
          THEN EndsEarly(c, a, ReturnInput)
          ELSE EndsEarly(c, a, Throw("Tool not found: " \o toolName))

\* typeof x === 'number' ? x : undefined
NumberOrUndefined(x) == IF x.kind = "number" THEN x ELSE NoNumber

\* index.ts, part_001 759-822: the typed argument objects of the three cases
TypedArgs(name, a) ==
    CASE name = "list_tables" -> [BaseArgs(name) EXCEPT !.schema = a.schema]
      [] name = "get_table_schema" ->
            [BaseArgs(name) EXCEPT !.table_name = a.table_name, !.schema = a.schema]
      [] OTHER ->
            [BaseArgs(name) EXCEPT
                !.table_name = a.table_name, !.columns = a.columns, !.filters = a.filters,
                !.limit = NumberOrUndefined(a.limit), !.offset = NumberOrUndefined(a.offset),
                !.order_by = a.order_by]

CallToolRequestHandler(c, name, input) ==
    /\ pc[c] = "idle"
    /\ IF ~input.present
       THEN EndsEarly(c, BaseArgs(name), Throw("Arguments are required"))
       ELSE IF name \in SwitchCases
       THEN Invoke(c, name, TypedArgs(name, input.value))
       ELSE EndsEarly(c, input.value, Throw("Unknown tool: " \o name))

DispatchNext ==
    \/ \E name \in ToolNames : \E input \in {Arguments(a) : a \in CallInputs(name)} \cup {NoArguments} :
          CallTool(1, name, input)
    \/ \E name \in ToolNames : \E input \in {Arguments(a) : a \in CallInputs(name)} \cup {NoArguments} :
          CallToolRequestHandler(1, name, input)
    \/ connectToDbRejects(1)
    \/ connectToDbResolves(1)
    \/ queryResolves(1)
    \/ queryRejects(1)
    \/ closeSettles(1)
    \/ Reply(1)

DispatchSpec == Init /\ [][DispatchNext]_vars

\* the call was answered with the handler's error for a name it does not know
ToolNotFound(c) ==
    /\ pc[c] = "done"
    /\ completion[c].kind = "throw"
    /\ completion[c].error \in {"Tool not found: " \o args[c].tool, "Unknown tool: " \o args[c].tool}

\* C16: a request with arguments that names one of the six tools runs that
\* tool and is not answered with a tool-not-found error; a request that names
\* anything else is answered with the tool-not-found error, and connectToDb
\* is not called for it.
C16_SixToolsDispatched ==
    \A c \in CallIds :
        pc[c] # "idle" =>
            IF args[c].tool \in Tools
            THEN ~ToolNotFound(c)
            ELSE ToolNotFound(c) /\ connects[c] = 0 /\ ~Acquired(c)

(***************************************************************************)
(* connectToDb (db.ts 14-88), called on its own as in db.test.ts.          *)
(***************************************************************************)
DefaultPort == 1433

LowerChar(ch) ==
    IF \E i \in 1..Len(UpperChars) : UpperChars[i] = ch
    THEN LowerChars[CHOOSE i \in 1..Len(UpperChars) : UpperChars[i] = ch]
    ELSE ch
\* String.prototype.toLowerCase
toLowerCase(s) == [i \in 1..Len(s) |-> LowerChar(s[i])]

\* a string of process.env in a condition: undefined and '' are falsy
Given(v) == v.set /\ v.chars # <<>>

NaN == [nan |-> TRUE, n |-> 0]
\* parseInt(s, 10): white space is skipped, a sign is taken, then the longest
\* run of digits is the number; without a digit the result is NaN
parseInt(s) ==
    LET spaces == CHOOSE k \in 0..Len(s) :
                     /\ \A i \in 1..k : s[i] = " "
                     /\ (k < Len(s) => s[k + 1] # " ")
        t == SubSeq(s, spaces + 1, Len(s))
        signed == t # <<>> /\ t[1] \in {"+", "-"}
        u == IF signed THEN Tail(t) ELSE t
        digits == CHOOSE k \in 0..Len(u) :
                     /\ \A i \in 1..k : IsDigit(u[i])
                     /\ (k < Len(u) => ~IsDigit(u[k + 1]))
        n == IndexValue(SubSeq(u, 1, digits))
    IN IF digits = 0 THEN NaN
       ELSE [nan |-> FALSE, n |-> IF signed /\ t[1] = "-" THEN 0 - n ELSE n]

\* portEnv ? parseInt(portEnv, 10) : 1433
Port(e) == IF Given(e.MSSQL_PORT) THEN parseInt(e.MSSQL_PORT.chars)
           ELSE [nan |-> FALSE, n |-> DefaultPort]

\* flagEnv ? flagEnv.toLowerCase() === 'true' : default
Flag(v, default) ==
    IF Given(v) THEN toLowerCase(v.chars) = <<"t", "r", "u", "e">> ELSE default

\* fault variant: only a variable that is undefined counts as missing
MissingUndefinedOnly(e) ==
    SelectSeq(<<"MSSQL_HOST", "MSSQL_USER", "MSSQL_PASSWORD", "MSSQL_DATABASE">>,
              LAMBDA name : ~e[name].set)
\* the names of the required variables that are not given, in the order of
\* db.ts 27-32
Missing(e) ==
    SelectSeq(<<"MSSQL_HOST", "MSSQL_USER", "MSSQL_PASSWORD", "MSSQL_DATABASE">>,
              LAMBDA name : ~Given(e[name]))

\* db.ts 50-67
Config(e) ==
    [server |-> e.MSSQL_HOST.chars, port |-> Port(e).n, user |-> e.MSSQL_USER.chars,
     password |-> e.MSSQL_PASSWORD.chars, database |-> e.MSSQL_DATABASE.chars,
     driver |-> IF Given(e.MSSQL_DRIVER) THEN e.MSSQL_DRIVER ELSE Unset,
     options |-> [encrypt |-> Flag(e.MSSQL_ENCRYPT, FALSE),
                  trustServerCertificate |-> Flag(e.MSSQL_TRUST_SERVER_CERTIFICATE, TRUE),
                  enableArithAbort |-> TRUE],
     pool |-> [max |-> 10, min |-> 0, idleTimeoutMillis |-> 30000]]

\* connectToDb up to its await: the checks of the environment, then the
\* construction of the pool and the call of pool.connect()
connectToDb ==
    /\ db.pc = "idle"
    /\ db' =
         IF Missing(env) # <<>>
         THEN [NoConnect EXCEPT
                 !.pc = "done", !.outcome = "throw",
                 !.error = <<"Missing required environment variables: ">>
                           \o join([i \in 1..Len(Missing(env)) |-> <<Missing(env)[i]>>], ", ")]
         ELSE IF Port(env).nan
         THEN [NoConnect EXCEPT
                 !.pc = "done", !.outcome = "throw",
                 !.error = <<"Invalid MSSQL_PORT: ">> \o env.MSSQL_PORT.chars
                           \o <<". Must be a number.">>]
         ELSE [NoConnect EXCEPT
                 !.pc = "connecting", !.config = Config(env),
                 !.constructed = 1, !.connectCalls = 1]
    /\ UNCHANGED <<pc, args, pool, connects, request, log, completion, result, pools, env>>

\* await pool.connect() resolves: the pool is returned
poolConnectResolves ==
    /\ db.pc = "connecting"
    /\ db' = [db EXCEPT !.pc = "done", !.outcome = "pool"]
    /\ UNCHANGED <<pc, args, pool, connects, request, log, completion, result, pools, env>>

\* await pool.connect() rejects: the error is wrapped and thrown
poolConnectRejects ==
    /\ db.pc = "connecting"
    /\ db' = [db EXCEPT !.pc = "done", !.outcome = "throw",
                        !.error = <<"Database connection failed: ", "err.message">>]
    /\ UNCHANGED <<pc, args, pool, connects, request, log, completion, result, pools, env>>

\* the caller has the outcome; the next call finds the same environment
connectToDbReturns ==
    /\ db.pc = "done"
    /\ db' = NoConnect
    /\ UNCHANGED <<pc, args, pool, connects, request, log, completion, result, pools, env>>

PortValues ==
    {Unset, Set(<<>>), Set(<<"1", "4", "3", "4">>), Set(<<"1", "2", "a">>),
     Set(<<"a", "b">>), Set(<<" ", "8">>), Set(<<"-">>)}
FlagValues ==
    {Unset, Set(<<>>), Set(<<"t", "r", "u", "e">>), Set(<<"T", "R", "U", "E">>),
     Set(<<"f", "a", "l", "s", "e">>), Set(<<"1">>)}
Envs ==
    [MSSQL_HOST : {Unset, Set(<<>>), Set(<<"h">>)},
     MSSQL_USER : {Unset, Set(<<"u">>)},
     MSSQL_PASSWORD : {Set(<<>>), Set(<<"p">>)},
     MSSQL_DATABASE : {Unset, Set(<<"d">>)},
     MSSQL_PORT : PortValues,
     MSSQL_ENCRYPT : FlagValues,
     MSSQL_TRUST_SERVER_CERTIFICATE : FlagValues,
     MSSQL_DRIVER : {Unset, Set(<<"t">>)}]

ConnectInit ==
    /\ env \in Envs
    /\ db = NoConnect
    /\ pc = [c \in CallIds |-> "idle"]
    /\ args = [c \in CallIds |-> BaseArgs("list_tables")]
    /\ pool = [c \in CallIds |-> NoPool]
    /\ connects = [c \in CallIds |-> 0]
    /\ request = [c \in CallIds |-> NoRequest]
    /\ log = [c \in CallIds |-> <<>>]
    /\ completion = [c \in CallIds |-> NoCompletion]
    /\ result = [c \in CallIds |-> NoResult]
    /\ pools = [p \in PoolIds |-> FreshPool]

ConnectNext ==
    \/ connectToDb
    \/ poolConnectResolves
    \/ poolConnectRejects
    \/ connectToDbReturns

ConnectSpec == ConnectInit /\ [][ConnectNext]_vars

\* C17: when MSSQL_ENCRYPT and MSSQL_TRUST_SERVER_CERTIFICATE are not set,
\* the pool is constructed with encrypt = true and trustServerCertificate =
\* false, and with pool settings max 10, min 0, idleTimeoutMillis 30000.
C17_SecureDefaults ==
    (/\ db.constructed = 1
     /\ ~env.MSSQL_ENCRYPT.set
     /\ ~env.MSSQL_TRUST_SERVER_CERTIFICATE.set) =>
        /\ db.config.options.encrypt = TRUE
        /\ db.config.options.trustServerCertificate = FALSE
        /\ db.config.pool = [max |-> 10, min |-> 0, idleTimeoutMillis |-> 30000]

\* the required variables that are unset or empty
Required == {"MSSQL_HOST", "MSSQL_USER", "MSSQL_PASSWORD", "MSSQL_DATABASE"}
UnsetOrEmpty(name) == ~env[name].set \/ env[name].chars = <<>>
\* connectToDb has thrown and has neither constructed a pool nor called
\* pool.connect()
FailedBeforePool ==
    /\ db.pc = "done" /\ db.outcome = "throw"
    /\ db.constructed = 0 /\ db.connectCalls = 0
\* the error names exactly the missing variables
NamesTheMissing ==
    LET missing == {name \in Required : UnsetOrEmpty(name)}
    IN /\ db.error[1] = "Missing required environment variables: "
       /\ Len(db.error) = 2 * Cardinality(missing)
       /\ {db.error[i] : i \in 2..Len(db.error)} \ {", "} = missing
\* the characters after leading blanks and a sign do not begin with a digit
NoLeadingInteger(s) ==
    \A k \in 1..(Len(s) + 1) :
        (\A i \in 1..(k - 1) : s[i] = " ") =>
            LET j == IF k <= Len(s) /\ s[k] \in {"+", "-"} THEN k + 1 ELSE k
            IN (k > Len(s) \/ s[k] # " ") => (j > Len(s) \/ ~IsDigit(s[j]))

\* C20 as stated: connectToDb fails before it constructs a pool when a
\* required variable is unset or empty, naming exactly the missing ones, or
\* when MSSQL_PORT is set and does not parse to a number; when MSSQL_PORT is
\* unset the port is 1433.
C20_EnvironmentValidated ==
    db.pc # "idle" =>
        IF \E name \in Required : UnsetOrEmpty(name)
        THEN FailedBeforePool /\ NamesTheMissing
        ELSE /\ (env.MSSQL_PORT.set /\ NoLeadingInteger(env.MSSQL_PORT.chars)) =>
                   FailedBeforePool
             /\ ~env.MSSQL_PORT.set =>
                   db.constructed = 1 /\ db.config.port = 1433

\* C20, amended: as stated, but for MSSQL_PORT the failure is that of a value
\* that is not empty and has no leading integer; an unset or empty
\* MSSQL_PORT gives port 1433, and any other value gives its leading integer.
C20_EnvironmentValidatedNonEmptyPort ==
    db.pc # "idle" =>
        IF \E name \in Required : UnsetOrEmpty(name)
        THEN FailedBeforePool /\ NamesTheMissing
        ELSE LET port == env.MSSQL_PORT
             IN IF port.set /\ port.chars # <<>> /\ NoLeadingInteger(port.chars)
                THEN /\ FailedBeforePool
                     /\ db.error = <<"Invalid MSSQL_PORT: ">> \o port.chars
                                   \o <<". Must be a number.">>
                ELSE /\ db.constructed = 1 /\ db.connectCalls = 1
                     /\ (~port.set \/ port.chars = <<>>) => db.config.port = 1433
                     /\ port.chars = <<"1", "2", "a">> => db.config.port = 12
                     /\ port.chars = <<" ", "8">> => db.config.port = 8

C20_Witness ==
    /\ FailedBeforePool
    /\ env.MSSQL_HOST = Set(<<>>)
    /\ ~env.MSSQL_DATABASE.set
    /\ env.MSSQL_PORT = Set(<<"a", "b">>)
    /\ db.error = <<"Missing required environment variables: ", "MSSQL_HOST", ", ",
                    "MSSQL_PASSWORD", ", ", "MSSQL_DATABASE">>

\* C18: a call calls connectToDb at most once and executes at most one
\* statement, query or bulk insert, and touches at most one pool; this is so
\* when the call has ended, also when connectToDb or the execution failed.
C18_NoRetry ==
    \A c \in CallIds :
        /\ connects[c] <= 1
        /\ request[c].queries + request[c].bulks <= 1
        /\ Executed(c) => connects[c] = 1
        /\ AcquisitionFailed(c) => request[c].queries + request[c].bulks = 0
        /\ ExecutionFailed(c) =>
              connects[c] = 1 /\ request[c].queries + request[c].bulks = 1
        /\ Cardinality({p \in PoolIds : pools[p] # FreshPool}) <= 1

C18_Witness ==
    \E c \in CallIds :
        /\ ExecutionFailed(c)
        /\ pc[c] = "done"
        /\ args[c].tool = "update_table_records"
        /\ connects[c] = 1
        /\ request[c].queries = 1

(***************************************************************************)
(* Calls that run concurrently: the host starts a call while another call  *)
(* is at an await.                                                         *)
(***************************************************************************)
ConcurrentRequests(tool) ==
    CASE tool = "list_tables" -> {BaseArgs(tool)}
      [] tool = "get_table_schema" -> {BaseArgs(tool)}
      [] tool = "read_table_rows" ->
            {BaseArgs(tool),
             [BaseArgs(tool) EXCEPT !.filters = Object(<<Entry(<<"a">>, NoOperatorFilter)>>)]}
      [] tool = "create_table_records" ->
            {[BaseArgs(tool) EXCEPT !.records = r] :
                r \in {Array(<<>>), Array(<<<<Entry(<<"a">>, ScalarValue(Num(1)))>>>>)}}
      [] tool = "update_table_records" ->
            {[BaseArgs(tool) EXCEPT !.updates = u,
                                    !.filters = Object(<<Entry(<<"a">>, ScalarValue(Num(1)))>>)] :
                u \in {Undefined, Object(<<Entry(<<"a">>, ScalarValue(Num(3)))>>)}}
      [] OTHER ->
            {[BaseArgs(tool) EXCEPT !.filters = f] :
                f \in {Undefined, Object(<<Entry(<<"a">>, ScalarValue(Num(1)))>>)}}

ConcurrentNext ==
    \E c \in CallIds :
        \/ \E a \in ConcurrentRequests("list_tables") : list_tables(c, a)
        \/ \E a \in ConcurrentRequests("get_table_schema") : get_table_schema(c, a)
        \/ \E a \in ConcurrentRequests("read_table_rows") : read_table_rows(c, a)
        \/ \E a \in ConcurrentRequests("create_table_records") : create_table_records(c, a)
        \/ \E a \in ConcurrentRequests("update_table_records") : update_table_records(c, a)
        \/ \E a \in ConcurrentRequests("delete_table_records") : delete_table_records(c, a)
        \/ connectToDbRejects(c)
        \/ connectToDbResolves(c)
        \/ queryResolves(c)
        \/ queryRejects(c)
        \/ closeSettles(c)
        \/ Reply(c)

ConcurrentSpec == Init /\ [][ConcurrentNext]_vars

\* the calls that hold pool p and have called close() on it
Closers(p) == {c \in CallIds : pool[c] = p /\ pc[c] \in {"closing", "done"}}
\* calls do not share a pool, close() is called on a pool only by the call
\* that holds it, and the pool of a call that awaits its query is connected
OwnPoolOnly ==
    /\ \A c, d \in CallIds : (c # d /\ Acquired(c)) => pool[c] # pool[d]
    /\ \A p \in PoolIds : pools[p].closeCalls = Cardinality(Closers(p))
    /\ \A p \in PoolIds : (\A c \in CallIds : pool[c] # p) => pools[p] = FreshPool
    /\ \A c \in CallIds :
          (pc[c] = "querying") => /\ pools[pool[c]].connected
                                  /\ pools[pool[c]].closeCalls = 0
AllTerminated == \A c \in CallIds : pc[c] \in {"idle", "done"}

ReleaseCalled(c) == Acquired(c) /\ pools[pool[c]].closeCalls > 0
Executions(c) == request[c].queries + request[c].bulks

\* C21: in a call the connection events come in the order acquire, at most
\* one execute, release.  A statement is handed to the driver only in the
\* step in which the pool is got, before any close(); after close() was
\* called the call executes nothing, gets no pool and calls no close()
\* again; and a call that called close() without having executed anything
\* ends by throwing.
C21_AcquireExecuteRelease ==
    /\ [](\A c \in CallIds :
            /\ Executed(c) => Acquired(c) /\ Executions(c) = 1
            /\ pc[c] = "querying" => Executed(c) /\ ~ReleaseCalled(c)
            /\ ReleaseCalled(c) => pc[c] \in {"closing", "done"}
            /\ (ReleaseCalled(c) /\ ~Executed(c)) => completion[c].kind = "throw")
    /\ [][\A c \in CallIds :
            /\ Executions(c)' > Executions(c) =>
                  ~Acquired(c) /\ Acquired(c)' /\ ~ReleaseCalled(c)'
            /\ (ReleaseCalled(c) /\ pc'[c] # "idle") =>
                  /\ request'[c] = request[c]
                  /\ pool'[c] = pool[c]
                  /\ connects'[c] = connects[c]
                  /\ pools'[pool[c]].closeCalls = pools[pool[c]].closeCalls
                  /\ completion'[c] = completion[c]]_vars

C21_Witness ==
    \E c \in CallIds :
        /\ pc[c] = "done"
        /\ args[c].tool = "read_table_rows"
        /\ ReleaseCalled(c)
        /\ ~Executed(c)
        /\ completion[c] = Throw("TypeError")

\* a read that got its pool and has a filter that is null or has no operator
\* string
MalformedRead(c) ==
    /\ pc[c] \in {"querying", "closing", "done"}
    /\ args[c].tool = "read_table_rows"
    /\ Acquired(c)
    /\ \E i \in 1..Len(LoopEntries(args[c])) : ~LoopEntries(args[c])[i].value.hasOperator

\* C22: a read that got its pool and meets, while it builds its query, a
\* filter that is null or has no operator string ends by throwing the error
\* of that step; it hands no query to the driver, and close() is called on
\* its pool exactly once.
C22_BuildFailureReleases ==
    \A c \in CallIds :
        MalformedRead(c) =>
            /\ pc[c] \in {"closing", "done"}
            /\ completion[c] = Throw("TypeError")
            /\ request[c].queries = 0 /\ request[c].bulks = 0
            /\ request[c].text = <<>>
            /\ result[c] = NoResult
            /\ pools[pool[c]].closeCalls = 1

C22_Witness ==
    \E c \in CallIds :
        /\ MalformedRead(c)
        /\ pc[c] = "done"
        /\ Len(LoopEntries(args[c])) = 2
        /\ LoopEntries(args[c])[1].value.hasOperator
        /\ ~pools[pool[c]].connected

(***************************************************************************)
(* Properties of the order of the clauses.                                 *)
(***************************************************************************)
\* entries in the order in which JavaScript enumerates the keys of an
\* object: the keys that are array indices first, by ascending number, then
\* the other keys in the order of their insertion
EnumerationOrder(entries) ==
    LET n == Len(entries)
        Before(i, j) ==
            LET ki == entries[i].key
                kj == entries[j].key
            IN \/ IsArrayIndex(ki) /\ ~IsArrayIndex(kj)
               \/ IsArrayIndex(ki) /\ IsArrayIndex(kj) /\ IndexValue(ki) < IndexValue(kj)
               \/ ~IsArrayIndex(ki) /\ ~IsArrayIndex(kj) /\ i < j
        perm == CHOOSE p \in Permutations(1..n) :
                    \A i, j \in 1..n : i < j => Before(p[i], p[j])
    IN [i \in 1..n |-> entries[perm[i]]]

\* the filters of a read that are kept, as positions of the order es
Retained(es) ==
    LET Kept(i) ==
            LET opU == toUpperCase(es[i].value.operator)
            IN \/ opU \in SupportedOps \ {<<"I", "N">>}
               \/ /\ opU = <<"I", "N">>
                  /\ es[i].value.value.kind = "array"
                  /\ Len(es[i].value.value.elems) > 0
    IN SelectSeq([i \in 1..Len(es) |-> i], Kept)
\* the clause of the kept filter at position i of the order es, with the
\* base placeholder name filterParam(i-1)
ExpectedClause(es, i) ==
    LET f == es[i].value
        name == "filterParam" \o ToString(i - 1)
    IN IF toUpperCase(f.operator) = <<"I", "N">>
       THEN Bracket(es[i].key) \o <<" IN (">>
            \o join([j \in 1..Len(f.value.elems) |-> <<"@" \o name \o "_" \o ToString(j - 1)>>],
                    ", ")
            \o <<")">>
       ELSE IF toUpperCase(f.operator) = <<"L", "I", "K", "E">>
       THEN Bracket(es[i].key) \o <<" LIKE ", "@" \o name>>
       ELSE Bracket(es[i].key) \o <<" ">> \o f.operator \o <<" ", "@" \o name>>
\* the text has a WHERE exactly when a filter of es is kept, and then the
\* clauses of the kept filters follow it in the order of es, joined by AND
WhereInOrder(c, es) ==
    LET text == request[c].text
        kept == Retained(es)
        Count(piece) == Cardinality({i \in 1..Len(text) : text[i] = piece})
    IN IF kept = <<>>
       THEN Count(" WHERE ") = 0 /\ Count(" AND ") = 0
       ELSE /\ Count(" WHERE ") = 1
            /\ Count(" AND ") = Len(kept) - 1
            /\ Count(" OR ") = 0
            /\ Contains(text,
                        <<" WHERE ">>
                        \o join([j \in 1..Len(kept) |-> ExpectedClause(es, kept[j])], " AND "))

\* C23 as stated: the order of the clauses and the numbering of the
\* placeholders are those of the insertion order of the filters.
C23_WhereInInsertionOrder ==
    \A c \in CallIds :
        (WellFormedRead(c) /\ request[c].queries = 1) =>
            WhereInOrder(c, IF args[c].filters.kind = "object"
                            THEN args[c].filters.entries ELSE <<>>)

\* C23, amended: the order of the clauses and the numbering of the
\* placeholders are those of the enumeration of the keys of the filters:
\* array-index keys first, then the other keys in insertion order.
C23_WhereInEnumerationOrder ==
    \A c \in CallIds :
        (WellFormedRead(c) /\ request[c].queries = 1) =>
            WhereInOrder(c, IF args[c].filters.kind = "object"
                            THEN EnumerationOrder(args[c].filters.entries) ELSE <<>>)

C23_Witness ==
    \E c \in CallIds :
        /\ WellFormedRead(c)
        /\ request[c].queries = 1
        /\ Len(args[c].filters.entries) = 2
        /\ args[c].filters.entries[1].key = <<"a">>
        /\ args[c].filters.entries[1].value.operator = <<"B", "E", "T", "W", "E", "E", "N">>
        /\ args[c].filters.entries[2].key = <<"1">>
        /\ Contains(request[c].text, <<" WHERE ", "[", "1", "]", " ", "=", " ", "@filterParam0", ";">>)

\* the text of the read has the ordering of the entries es: [col] DIR for
\* each, separated by commas, DIR being DESC when the direction is 'DESC' in
\* any case of the letters and ASC otherwise
OrderByInOrder(c, es) ==
    LET Dir(d) == IF d \in {<<x1, x2, x3, x4>> : x1 \in {"d", "D"}, x2 \in {"e", "E"},
                                               x3 \in {"s", "S"}, x4 \in {"c", "C"}}
                  THEN "DESC" ELSE "ASC"
    IN Contains(request[c].text,
                <<" ORDER BY ">>
                \o join([i \in 1..Len(es) |-> Bracket(es[i].key) \o <<" ", Dir(es[i].value)>>],
                        ", ")
                \o (IF args[c].limit.kind = "number" \/ args[c].offset.kind = "number"
                    THEN <<" OFFSET ">> ELSE <<";">>))

\* C24: the query of a read with entries in order_by has ORDER BY followed
\* by [col] DIR for each entry, in the insertion order of the entries and
\* separated by commas; DIR is DESC exactly when the direction given is
\* 'DESC' in any case of the letters, and ASC for every other string.
C24_OrderByInInsertionOrder ==
    \A c \in CallIds :
        (ReadExecuted(c) /\ Len(args[c].order_by.entries) > 0) =>
            OrderByInOrder(c, args[c].order_by.entries)

\* what holds instead: the entries are rendered in the order in which
\* JavaScript enumerates the keys of order_by
OrderByInEnumerationOrder ==
    \A c \in CallIds :
        (ReadExecuted(c) /\ Len(args[c].order_by.entries) > 0) =>
            OrderByInOrder(c, EnumerationOrder(args[c].order_by.entries))

(***************************************************************************)
(* Properties of the table of the bulk insert.                             *)
(***************************************************************************)
\* a create that has handed its table to request.bulk
CreateExecuted(c) ==
    /\ pc[c] \in {"querying", "closing", "done"}
    /\ args[c].tool = "create_table_records"
    /\ request[c].bulks = 1

\* the SQL type declared for a value of a JavaScript type
DeclaredType(value) ==
    IF value.kind # "scalar" THEN "NVarChar(MAX)"
    ELSE LET t == value.elems[1].type
         IN IF t = "integer" THEN "Int"
            ELSE IF t = "float" THEN "Float"
            ELSE IF t = "boolean" THEN "Bit"
            ELSE IF t = "date" THEN "DateTime"
            ELSE "NVarChar(MAX)"

\* C25: the table of the bulk insert is named [table_name], is not created,
\* and its columns are the keys of the first record in the order of that
\* record's keys, each nullable and of the type declared for the first
\* record's value under that key: Int for an integer, Float for another
\* number, Bit for a boolean, DateTime for a Date and NVarChar(MAX) for
\* anything else; the later records have no part in it.
C25_ColumnsFromFirstRecord ==
    \A c \in CallIds :
        CreateExecuted(c) =>
            LET first == EnumerationOrder(args[c].records.items[1])
                table == request[c].table
            IN /\ table.name = Bracket(args[c].table_name)
               /\ table.create = FALSE
               /\ Len(table.columns) = Len(first)
               /\ \A i \in 1..Len(first) :
                     table.columns[i] = [name |-> first[i].key,
                                         type |-> DeclaredType(first[i].value),
                                         nullable |-> TRUE]
               /\ Len(table.rows) = Len(args[c].records.items)

C25_Witness ==
    \E c \in CallIds :
        /\ CreateExecuted(c)
        /\ Len(args[c].records.items) = 2
        /\ args[c].records.items[1]
             = <<Entry(<<"a">>, ScalarValue(Num(1))), Entry(<<"1">>, ScalarValue(Num(3)))>>
        /\ args[c].records.items[2][1].value = ScalarValue([type |-> "float", v |-> 1])
        /\ request[c].table.columns
             = <<[name |-> <<"1">>, type |-> "Int", nullable |-> TRUE],
                 [name |-> <<"a">>, type |-> "Int", nullable |-> TRUE]>>

\* the keys of a record, in the order of insertion
InsertionKeys(record) == [i \in 1..Len(record) |-> record[i].key]
\* a record after the first whose keys are not those of the first record in
\* the same order
DeviatingRecords(c) ==
    {r \in 2..Len(args[c].records.items) :
        InsertionKeys(args[c].records.items[r]) # InsertionKeys(args[c].records.items[1])}
\* a value of record r stands in the row at a column it was not keyed by,
\* in place of the value keyed by that column
Misaligned(c, r) ==
    LET record == args[c].records.items[r]
        table == request[c].table
    IN \E i \in 1..Len(table.columns) : \E j \in 1..Len(record) :
          /\ record[j].key # table.columns[i].name
          /\ table.rows[r][i] = record[j].value
          /\ \A k \in 1..Len(record) :
                record[k].key = table.columns[i].name => record[k].value # record[j].value

\* C26 as stated: in the table of the bulk insert a later record whose keys
\* are missing, extra or in another order than the keys of the first record
\* has a value in the row position of a column it was not keyed by.
C26_LaterRecordMisaligned ==
    \A c \in CallIds :
        CreateExecuted(c) => \A r \in DeviatingRecords(c) : Misaligned(c, r)

\* C26, amended: every row has one value per column of the first record,
\* and it is the value the record has under that column's key, or undefined
\* when the record has no such key; a key the first record does not have
\* adds nothing, and the order of a record's keys has no effect.
C26_RowsFilledByKey ==
    \A c \in CallIds :
        CreateExecuted(c) =>
            LET table == request[c].table
            IN \A r \in 1..Len(args[c].records.items) :
                  LET record == args[c].records.items[r]
                  IN /\ Len(table.rows[r]) = Len(table.columns)
                     /\ ~Misaligned(c, r)
                     /\ \A i \in 1..Len(table.columns) :
                           IF \E j \in 1..Len(record) : record[j].key = table.columns[i].name
                           THEN \E j \in 1..Len(record) :
                                   /\ record[j].key = table.columns[i].name
                                   /\ table.rows[r][i] = record[j].value
                           ELSE table.rows[r][i] = UndefinedValue

C26_Witness ==
    \E c \in CallIds :
        /\ CreateExecuted(c)
        /\ 2 \in DeviatingRecords(c)
        /\ InsertionKeys(args[c].records.items[1]) = <<<<"a">>, <<"1">>>>
        /\ InsertionKeys(args[c].records.items[2]) = <<<<"b", "]">>, <<"a">>>>
        /\ args[c].records.items[2][1].value # args[c].records.items[2][2].value
        /\ request[c].table.rows[2] = <<UndefinedValue, args[c].records.items[2][2].value>>

(***************************************************************************)
(* Properties of the numbers and of the placeholders in the text.          *)
(***************************************************************************)
\* the texts of the non-negative integers that the requests can give
CountTexts == {ToString(k) : k \in 0..9}

\* C27: in the query of a read the piece after OFFSET and the piece after
\* FETCH NEXT are the text of a non-negative integer, whatever numbers the
\* caller gives as limit and offset.
C27_CountsAreNonNegativeIntegers ==
    \A c \in CallIds :
        ReadExecuted(c) =>
            \A i \in 1..Len(request[c].text) :
                request[c].text[i] \in {" OFFSET ", " FETCH NEXT "} =>
                    request[c].text[i + 1] \in CountTexts

\* the WHERE of an executed update or delete is the equality clauses of
\* the filters in the order es, numbered from first and joined by AND, and
\* each filter's value is bound as it was given under its clause's name
EqualityWhere(c, es, first) ==
    LET text == request[c].text
        ins == request[c].inputs
        Name(i) == "filterParam" \o ToString(first + i - 1)
        Clause(i) == <<"[">> \o es[i].key \o <<"]", " = ", "@" \o Name(i)>>
        Count(piece) == Cardinality({i \in 1..Len(text) : text[i] = piece})
    IN /\ Count(" WHERE ") = 1
       /\ Count(" AND ") = Len(es) - 1
       /\ Count(" = ") = Len(ins)
       /\ Contains(text, <<" WHERE ">>
                         \o join([i \in 1..Len(es) |-> Clause(i)], " AND ")
                         \o <<"; SELECT @@ROWCOUNT AS RowsAffected;">>)
       /\ \A i \in 1..Len(es) :
             /\ Cardinality({j \in 1..Len(ins) : ins[j].name = Name(i)}) = 1
             /\ \A j \in 1..Len(ins) :
                   ins[j].name = Name(i) => ins[j].value = es[i].value
\* the number of the first filter parameter: the SET entries come first
FirstFilterParam(c) ==
    IF args[c].tool = "update_table_records" THEN Len(args[c].updates.entries) ELSE 0

\* C28 as stated: the equality clauses of an update or delete follow the
\* insertion order of the filters.
C28_EqualityFiltersInInsertionOrder ==
    \A c \in CallIds :
        WriteExecuted(c) =>
            EqualityWhere(c, args[c].filters.entries, FirstFilterParam(c))

\* C28, amended: in update_table_records and delete_table_records every
\* filter entry is rendered as `[col] = @filterParamK`, joined by AND, in
\* the enumeration order of the keys (array-index keys first, then the
\* other keys in insertion order); the entry's value is bound unchanged
\* whatever its shape, a value shaped like {operator, value} as a whole,
\* and no operator other than = occurs.
C28_EqualityFiltersInEnumerationOrder ==
    \A c \in CallIds :
        WriteExecuted(c) =>
            EqualityWhere(c, EnumerationOrder(args[c].filters.entries), FirstFilterParam(c))

C28_Witness ==
    \E c \in CallIds :
        /\ WriteExecuted(c)
        /\ args[c].tool = "delete_table_records"
        /\ Len(args[c].filters.entries) = 2
        /\ args[c].filters.entries[1] = Entry(<<"a">>, ObjectValue(<<">">>, Num(1)))
        /\ args[c].filters.entries[2].key = <<"1">>
        /\ request[c].inputs[2] = Input("filterParam1", "infer", ObjectValue(<<">">>, Num(1)))
        /\ Contains(request[c].text,
                    <<" WHERE ", "[", "1", "]", " = ", "@filterParam0", " AND ",
                      "[", "a", "]", " = ", "@filterParam1">>)

\* the parameter names that the builders can form
ParamNames ==
    {"table_name", "schema"}
    \cup {SetParamName(k) : k \in 0..(2 * MaxFilters)}
    \cup UNION {NamesAt(k) : k \in 0..(2 * MaxFilters)}
RECURSIVE Concat(_)
Concat(chars) == IF chars = <<>> THEN "" ELSE Head(chars) \o Concat(Tail(chars))
\* the length of the run of identifier characters of the text from piece i
RECURSIVE RunFrom(_, _)
RunFrom(text, i) ==
    IF i <= Len(text) /\ text[i] \in IdentifierChars THEN 1 + RunFrom(text, i + 1) ELSE 0
\* the placeholders of the text from piece i on, as SQL Server reads them:
\* what stands between [ and ] is a quoted name (]] stands for ] in it), and
\* outside of it an @ with the identifier characters after it is a placeholder
RECURSIVE PlaceholdersFrom(_, _, _)
PlaceholdersFrom(text, i, quoted) ==
    IF i > Len(text) THEN {}
    ELSE IF quoted
    THEN IF text[i] # "]" THEN PlaceholdersFrom(text, i + 1, TRUE)
         ELSE IF i < Len(text) /\ text[i + 1] = "]"
         THEN PlaceholdersFrom(text, i + 2, TRUE)
         ELSE PlaceholdersFrom(text, i + 1, FALSE)
    ELSE IF text[i] = "[" THEN PlaceholdersFrom(text, i + 1, TRUE)
    ELSE IF text[i] = "@"
    THEN LET n == RunFrom(text, i + 1)
         IN {Concat(SubSeq(text, i + 1, i + n))} \cup PlaceholdersFrom(text, i + n + 1, FALSE)
    ELSE IF \E name \in ParamNames : text[i] = "@" \o name
    THEN {CHOOSE name \in ParamNames : text[i] = "@" \o name}
         \cup PlaceholdersFrom(text, i + 1, FALSE)
    ELSE PlaceholdersFrom(text, i + 1, FALSE)
PlaceholdersOf(text) == PlaceholdersFrom(text, 1, FALSE)

\* the names of the placeholders of the executed text are the names bound
\* on the request, and each name is bound once
PlaceholdersBound(c) ==
    LET ins == request[c].inputs
    IN /\ PlaceholdersOf(request[c].text) = {ins[i].name : i \in 1..Len(ins)}
       /\ \A i, j \in 1..Len(ins) : i # j => ins[i].name # ins[j].name

\* C29: for every query executed by read_table_rows, update_table_records
\* or delete_table_records the placeholder names of the text are the names
\* bound on the request, each bound once, also when filters are dropped.
C29_PlaceholdersAreTheBoundNames ==
    \A c \in CallIds :
        (ReadExecuted(c) \/ WriteExecuted(c)) => PlaceholdersBound(c)

\* what holds of the placeholders: the text and the bindings agree when no
\* table or column name of the request has a ] or an @
PlaceholdersBoundForPlainNames ==
    \A c \in CallIds :
        (/\ ReadExecuted(c) \/ WriteExecuted(c)
         /\ \A name \in NamesOf(args[c]) :
               \A i \in 1..Len(name) : name[i] \notin {"]", "@"}) =>
            PlaceholdersBound(c)

\* the call has ended and the pool.close() of its release was rejected
CloseFailed(c) ==
    /\ pc[c] = "done"
    /\ pool[c] # NoPool
    /\ pools[pool[c]].closeFailures > 0

\* C30: a rejection of pool.close() during the release does not change the
\* outcome of the call: after a query that succeeded the call returns the
\* result shaped from the driver's result, after a query that failed it
\* throws the query's error, and the await of pool.close() leaves the
\* outcome that the try block completed with as it is.
C30_CloseFailureKeepsOutcome ==
    /\ [](\A c \in CallIds :
            (CloseFailed(c) /\ Executed(c)) =>
                completion[c] = IF result[c] # NoResult
                                THEN Shape(args[c].tool, result[c])
                                ELSE Throw("QueryError"))
    /\ [][\A c \in CallIds : pc[c] = "closing" => completion'[c] = completion[c]]_vars

C30_Witness ==
    \E c \in CallIds :
        /\ CloseFailed(c)
        /\ Executed(c)
        /\ args[c].tool = "read_table_rows"
        /\ completion[c].kind = "return"
        /\ completion[c].rows # <<>>
        /\ completion[c].rows = result[c].recordset

====
